SPECIFICATION TextSpec
CONSTANTS
  Inputs <- MCInputs
  Malformed <- MCMalformed
  Decimals <- MCDecimals
  Wholes <- MCWholes
  Written <- MCWritten
  TextOf <- MCTextOf
  Symbols <- MCSymbols
  Letters <- MCLetters
  Digits <- MCDigits
  Spaces <- MCSpaces
  HighBytes <- MCHighBytes
  Utf8 <- MCUtf8
INVARIANT NeverPanics
