SPECIFICATION Spec
CONSTANTS
    Prices <- MCPrices
    Lookback = 2
    Window = 4
    LastBar = 6
PROPERTIES
    OriginIsNotRatcheted
