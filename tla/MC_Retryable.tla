---------------------------- MODULE MC_Retryable ----------------------------
EXTENDS Exposition

\* both cases of a letter, and the three characters formatLabels escapes
MCChars == {"a", "A", "b", "\\", "\"", "\n"}

\* two patterns, one a suffix of the other
MCPatterns == <<<<"a", "b">>, <<"b">>>>

\* two label names, listed out of byte order
MCLabelKeys == <<<<"s", "v", "c">>, <<"m">>>>
MCKeyChars == {"c", "m", "s", "v"}
MCKeyByte == [c \in MCKeyChars |-> CASE c = "c" -> 99 [] c = "m" -> 109
                                     [] c = "s" -> 115 [] c = "v" -> 118]

=============================================================================
