---------------------------- MODULE MC_VaultStorage ----------------------------
EXTENDS VaultStorage

\* an empty users table
MCNoUsers == [e \in Emails |-> None]

\* every email hash registered, with its own key and the password of that key
MCRegistered == LET k == CHOOSE k \in Keys : TRUE
                IN [e \in Emails |-> [key |-> k, pwdKey |-> k]]

=============================================================================
