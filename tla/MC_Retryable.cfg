\* contains agrees with the substring relation on every pair of strings of
\* length at most 3 over {a, A, b, \, ", newline}; isRetryableError with two
\* patterns agrees with "some pattern is a substring"; and formatLabels'
\* output parses back to the labels it was given, for every map of at most
\* two labels valued by those strings.
SPECIFICATION Spec
CONSTANTS
    Chars <- MCChars
    MaxLen = 3
    retryablePatterns <- MCPatterns
    LabelKeys <- MCLabelKeys
    KeyChars <- MCKeyChars
    KeyByte <- MCKeyByte
 
INVARIANT FormatLabelsRoundTrips
