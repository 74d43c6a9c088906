SPECIFICATION SpecO
CONSTANTS
    Inputs <- InputLists
    OptionSets <- Options
    Lower <- Lowercase
    Percent <- Decoded
    Numeral <- Numerals
    Ports <- PortTexts
    Listed <- Lists
    Links = {"https://idp"}
INVARIANTS
    TypeOKO
    HighestLayerWins
    TypedForTheDriver
    IdNamesTheEndpoint
    UnknownStaysOut
    SpelledEitherWay
\* An adapter that has connected or was refused, and was asked for its id, is
\* done.
CHECK_DEADLOCK FALSE
