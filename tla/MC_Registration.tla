--------------------------- MODULE MC_Registration ---------------------------
(* Two attempts; the user client's own request (TestEmail, TestPassword and *)
(* a key file) and requests from other callers that stop at each check.    *)
EXTENDS Registration

CONSTANTS r1, r2

MCRegs == {r1, r2}

Req(via, m, j, e, p, k, who) ==
    [via |-> via, method |-> m, json |-> j, email |-> e, password |-> p, ssh |-> k, who |-> who]

MCRequests ==
    { Req("client", "POST", TRUE, "ok", "ok", "ok", "test"),         \* RegisterUser
      Req("client", "POST", TRUE, "ok", "ok", "noPrefix", "test"),   \* bad key file
      Req("client", "POST", TRUE, "ok", "ok", "invalid", "test"),
      Req("curl", "POST", TRUE, "ok", "ok", "ok", "bob"),
      Req("curl", "GET", TRUE, "ok", "ok", "ok", "bob"),
      Req("curl", "POST", FALSE, "ok", "ok", "ok", "bob"),
      Req("curl", "POST", TRUE, "multiAt", "ok", "ok", "bob"),
      Req("curl", "POST", TRUE, "ok", "weak", "ok", "bob"),
      Req("curl", "POST", TRUE, "ok", "ok", "noPrefix", "bob") }

=============================================================================
