---------------------------- MODULE Registration ----------------------------
(***************************************************************************)
(* The registration pipeline: user client -> Entry-Hub -> Security-Switch  *)
(* -> Database-Vault, one synchronous HTTPS/mTLS request per hop.          *)
(*                                                                         *)
(* Each registration attempt r moves through the layers; every layer is a *)
(* process of its own, so attempts interleave freely and the Hub's         *)
(* http.Client may time out while the Switch and the Vault are still      *)
(* working on r (their late answer is then discarded).                    *)
(*                                                                         *)
(* Requests are abstracted to the facts the validators test: each field    *)
(* is "ok" or names the first check of the chain that rejects it. The      *)
(* Switch is not part of this source tree: its actions follow spec 4.3.    *)
(***************************************************************************)
EXTENDS Naturals, FiniteSets

CONSTANTS
    Regs,          \* registration attempts (model values)
    Requests,      \* request records the callers may send
    SwitchLinks,   \* what the Hub's connection to the Switch does
    VaultCrypto,   \* outcomes of the Vault's key check / encryption / salt
    HubCertFiles   \* states of the Hub's certificate files when a request reads them

None == [status |-> 0, success |-> FALSE]
NoRequest == [via |-> "none", method |-> "none", json |-> FALSE, email |-> "none",
              password |-> "none", ssh |-> "none", who |-> "none"]

VARIABLES
    req,         \* r -> the request sent
    client,      \* r -> "idle" | "error" | "sent" | "ok" | "failed"
    hub,         \* r -> "idle" | "recv" | "forwarding" | "answered"
    sw,          \* r -> "idle" | "recv" | "forwarding" | "answered"
    vault,       \* r -> "idle" | "recv" | "answered"
    hubResp, swResp, vaultResp,  \* r -> [status, success], None if none
    link,        \* r -> how the Hub's request to the Switch ended
    users        \* the Vault's users table, as the identities it holds

vars == <<req, client, hub, sw, vault, hubResp, swResp, vaultResp, link, users>>

Resp == [status: {0, 201, 400, 405, 500, 502, 503, 504}, success: BOOLEAN]

TypeOK ==
    /\ req \in [Regs -> Requests \cup {NoRequest}]
    /\ client \in [Regs -> {"idle", "error", "sent", "ok", "failed"}]
    /\ hub \in [Regs -> {"idle", "recv", "forwarding", "answered"}]
    /\ sw \in [Regs -> {"idle", "recv", "forwarding", "answered"}]
    /\ vault \in [Regs -> {"idle", "recv", "answered"}]
    /\ hubResp \in [Regs -> Resp] /\ swResp \in [Regs -> Resp]
    /\ vaultResp \in [Regs -> Resp]
    /\ link \in [Regs -> SwitchLinks \cup {"none", "clientTimeout"}]
    /\ users \subseteq {q.who : q \in Requests}

\* The section 4.1 contract: every field passes.
Valid(q) == q.email = "ok" /\ q.password = "ok" /\ q.ssh = "ok"

-----------------------------------------------------------------------------
\* Mutant: the Hub forgets the "ssh-" prefix check.
HubVerdictNoPrefix(q) ==
    CASE q.method # "POST"                          -> "method"
      [] ~q.json                                     -> "body"
      [] q.email = "empty" \/ q.password = "empty"   -> "missing_required_fields"
      [] q.email = "invalid"                         -> "invalid_email"
      [] q.email = "multiAt"                         -> "email_injection_attempt"
      [] q.password = "short"                        -> "password_too_short"
      [] q.password = "weak"                         -> "weak_password"
      [] q.password = "simple"                       -> "password_complexity"
      [] q.ssh \in {"empty", "invalid"}              -> "invalid_ssh_key"
      [] OTHER                                       -> "pass"

(* RegisterHandler's checks, in order, as the validation-failure label it  *)
(* records ("pass" when every check passes); method and body are handled  *)
(* by EnforcePOST (405) and ReadRequestBody/ParseJSONBody (400).           *)
HubVerdict(q) ==
    CASE q.method # "POST"                          -> "method"
      [] ~q.json                                     -> "body"
      [] q.email = "empty" \/ q.password = "empty"   -> "missing_required_fields"
      [] q.email = "invalid"                         -> "invalid_email"
      [] q.email = "multiAt"                         -> "email_injection_attempt"
      [] q.password = "short"                        -> "password_too_short"
      [] q.password = "weak"                         -> "weak_password"
      [] q.password = "simple"                       -> "password_complexity"
      [] q.ssh \in {"empty", "invalid"}              -> "invalid_ssh_key"
      [] q.ssh = "noPrefix"                          -> "malformed_ssh_key"
      [] OTHER                                       -> "pass"

(* StoreUserHandler's checks: the required-fields test also covers the SSH *)
(* key; the rest is the Hub's chain.                                        *)
VaultPasses(q) ==
    /\ q.method = "POST" /\ q.json
    /\ q.email # "empty" /\ q.password # "empty" /\ q.ssh # "empty"
    /\ q.email \notin {"invalid", "multiAt"}
    /\ q.password \notin {"short", "weak", "simple"}
    /\ q.ssh \notin {"invalid", "noPrefix"}

(* The lowercase words strings.Contains finds in err.Error() for each way  *)
(* the Hub's call to the Switch fails (Go's messages, wrapped by           *)
(* ForwardRegistration and *url.Error):                                     *)
(*   refused:          "dial tcp ...: connect: connection refused"          *)
(*   dialTimeout:      "dial tcp ...: i/o timeout"                          *)
(*   handshakeTimeout: "net/http: TLS handshake timeout"                    *)
(*   unknownAuthority: "tls: failed to verify certificate: x509:            *)
(*                      certificate signed by unknown authority"            *)
(*   wrongOrg:         "unauthorized server"       (VerifyPeerCertificate)  *)
(*   noChain:          "no server certificate available"                    *)
(*   clientTimeout:    "context deadline exceeded (Client.Timeout exceeded  *)
(*                      while awaiting headers)"   -- capital T             *)
(*   badBody:          "failed to decode Security-Switch response: ..."     *)
ErrorWords ==
    [refused |-> {"connection refused"}, dialTimeout |-> {"timeout"},
     handshakeTimeout |-> {"timeout"}, unknownAuthority |-> {"tls", "certificate"},
     wrongOrg |-> {}, noChain |-> {"certificate"}, clientTimeout |-> {},
     badBody |-> {}]

\* RegisterHandler's classification of a ForwardRegistration error.
ForwardErrorStatus(f) ==
    CASE "connection refused" \in ErrorWords[f]                 -> 503
      [] "timeout" \in ErrorWords[f]                            -> 504
      [] ErrorWords[f] \cap {"certificate", "tls"} # {}         -> 500
      [] OTHER                                                  -> 502

-----------------------------------------------------------------------------
Init ==
    /\ req = [r \in Regs |-> NoRequest]
    /\ client = [r \in Regs |-> "idle"]
    /\ hub = [r \in Regs |-> "idle"] /\ sw = [r \in Regs |-> "idle"]
    /\ vault = [r \in Regs |-> "idle"]
    /\ hubResp = [r \in Regs |-> None] /\ swResp = [r \in Regs |-> None]
    /\ vaultResp = [r \in Regs |-> None]
    /\ link = [r \in Regs |-> "none"]
    /\ users = {}

Answer(f, r, st) == f' = [f EXCEPT ![r] = [status |-> st, success |-> st = 201]]

(* A caller sends request q. The user client (RegisterUser) first reads    *)
(* its key file with readSSHPublicKey and gives up, sending nothing, if    *)
(* the key is empty or lacks the "ssh-" prefix; other callers (curl) send  *)
(* whatever they like.                                                      *)
ClientSend(r, q) ==
    /\ client[r] = "idle"
    /\ req' = [req EXCEPT ![r] = q]
    /\ IF q.via = "client" /\ q.ssh \in {"empty", "noPrefix"}
       THEN client' = [client EXCEPT ![r] = "error"] /\ UNCHANGED hub
       ELSE client' = [client EXCEPT ![r] = "sent"] /\ hub' = [hub EXCEPT ![r] = "recv"]
    /\ UNCHANGED <<sw, vault, hubResp, swResp, vaultResp, link, users>>

(* RegisterHandler: validation, then NewEntryHubClient (every one of its  *)
(* errors mentions "certificate": 500), then ForwardRegistration's POST:    *)
(* either the Switch receives the request or the connection fails and the  *)
(* error is classified.                                                     *)
HubHandle(r) ==
    /\ hub[r] = "recv"
    /\ LET v == HubVerdict(req[r]) IN
       \/ /\ v # "pass"
          /\ Answer(hubResp, r, IF v = "method" THEN 405 ELSE 400)
          /\ hub' = [hub EXCEPT ![r] = "answered"] /\ UNCHANGED <<sw, link>>
       \/ /\ v = "pass" /\ \E f \in HubCertFiles : f # "ok"
          /\ Answer(hubResp, r, 500)
          /\ hub' = [hub EXCEPT ![r] = "answered"] /\ UNCHANGED <<sw, link>>
       \/ /\ v = "pass" /\ "ok" \in HubCertFiles
          /\ \E l \in SwitchLinks :
               /\ link' = [link EXCEPT ![r] = l]
               /\ IF l = "up"
                  THEN /\ hub' = [hub EXCEPT ![r] = "forwarding"]
                       /\ sw' = [sw EXCEPT ![r] = "recv"] /\ UNCHANGED hubResp
                  ELSE /\ Answer(hubResp, r, ForwardErrorStatus(l))
                       /\ hub' = [hub EXCEPT ![r] = "answered"] /\ UNCHANGED sw
    /\ UNCHANGED <<req, client, vault, swResp, vaultResp, users>>

\* Mutant: the Hub's verdict on the Switch's answer ignores its success flag.
HubReceiveIgnoresSuccess(r) ==
    /\ hub[r] = "forwarding" /\ sw[r] = "answered"
    /\ Answer(hubResp, r, 201)
    /\ hub' = [hub EXCEPT ![r] = "answered"]
    /\ UNCHANGED <<req, client, sw, vault, swResp, vaultResp, link, users>>

\* Mutant: success answered with http.StatusOK instead of StatusCreated.
HubReceiveStatusOK(r) ==
    /\ hub[r] = "forwarding" /\ sw[r] = "answered"
    /\ hubResp' = [hubResp EXCEPT ![r] =
         IF swResp[r].success THEN [status |-> 200, success |-> TRUE] ELSE [status |-> 400, success |-> FALSE]]
    /\ hub' = [hub EXCEPT ![r] = "answered"]
    /\ UNCHANGED <<req, client, sw, vault, swResp, vaultResp, link, users>>

(* ForwardRegistration decodes the Switch's body whatever its status;      *)
(* RegisterHandler answers 400 "Registration failed: ..." when success is   *)
(* false and 201 otherwise.                                                 *)
HubReceive(r) ==
    /\ hub[r] = "forwarding" /\ sw[r] = "answered"
    /\ Answer(hubResp, r, IF swResp[r].success THEN 201 ELSE 400)
    /\ hub' = [hub EXCEPT ![r] = "answered"]
    /\ UNCHANGED <<req, client, sw, vault, swResp, vaultResp, link, users>>

\* Mutant: an http.Client without Timeout waits for the Switch forever.
HubTimeoutUnset(r) == FALSE

(* The Hub's http.Client gives up after 30 s without the Switch's answer;  *)
(* the Switch and the Vault carry on and their answer is discarded.         *)
HubTimeout(r) ==
    /\ hub[r] = "forwarding" /\ sw[r] # "answered"
    /\ link' = [link EXCEPT ![r] = "clientTimeout"]
    /\ Answer(hubResp, r, ForwardErrorStatus("clientTimeout"))
    /\ hub' = [hub EXCEPT ![r] = "answered"]
    /\ UNCHANGED <<req, client, sw, vault, swResp, vaultResp, users>>

(* Spec 4.3, the Switch: re-validate (400), else forward to the Vault.     *)
SwitchHandle(r) ==
    /\ sw[r] = "recv"
    /\ IF Valid(req[r])
       THEN sw' = [sw EXCEPT ![r] = "forwarding"] /\ vault' = [vault EXCEPT ![r] = "recv"]
            /\ UNCHANGED swResp
       ELSE sw' = [sw EXCEPT ![r] = "answered"] /\ Answer(swResp, r, 400)
            /\ UNCHANGED vault
    /\ UNCHANGED <<req, client, hub, hubResp, vaultResp, link, users>>

\* Spec 4.3: the Switch relays the Vault's response.
SwitchRelay(r) ==
    /\ sw[r] = "forwarding" /\ vault[r] = "answered"
    /\ sw' = [sw EXCEPT ![r] = "answered"]
    /\ swResp' = [swResp EXCEPT ![r] = vaultResp[r]]
    /\ UNCHANGED <<req, client, hub, vault, hubResp, vaultResp, link, users>>

(* StoreUserHandler: validation (400), ValidateEncryptionKey,              *)
(* EncryptEmailSecure and GenerateSalt (500 on failure), then 201. The      *)
(* StoredUser it builds is discarded (`_ = user`): the StoreUser call is    *)
(* commented out, so the users table is left as it was.                    *)
VaultHandle(r) ==
    /\ vault[r] = "recv"
    /\ \E c \in VaultCrypto :
         Answer(vaultResp, r, IF ~VaultPasses(req[r]) THEN 400
                              ELSE IF c # "ok" THEN 500 ELSE 201)
    /\ vault' = [vault EXCEPT ![r] = "answered"]
    /\ UNCHANGED <<req, client, hub, sw, hubResp, swResp, link, users>>

(* RegisterUser's verdict: an error unless the status is 2xx and the body  *)
(* says success.                                                            *)
ClientReceive(r) ==
    /\ client[r] = "sent" /\ hub[r] = "answered"
    /\ client' = [client EXCEPT ![r] =
         IF hubResp[r].status \in 200..299 /\ hubResp[r].success THEN "ok" ELSE "failed"]
    /\ UNCHANGED <<req, hub, sw, vault, hubResp, swResp, vaultResp, link, users>>

Next ==
    \/ \E r \in Regs, q \in Requests : ClientSend(r, q)
    \/ \E r \in Regs :
         \/ HubHandle(r) \/ HubReceive(r) \/ HubTimeout(r) \/ ClientReceive(r)
         \/ SwitchHandle(r) \/ SwitchRelay(r) \/ VaultHandle(r)

(* The Hub's handler goroutine and the client run to completion; the       *)
(* Switch and the Vault are other processes that may stall, so they get no *)
(* fairness: the Hub's timeout is what bounds the wait.                    *)
Spec == Init /\ [][Next]_vars
        /\ \A r \in Regs : /\ WF_vars(HubHandle(r)) /\ WF_vars(HubReceive(r))
                           /\ WF_vars(HubTimeout(r)) /\ WF_vars(ClientReceive(r))

-----------------------------------------------------------------------------
(* Every request a caller sends is answered: however the Switch and the     *)
(* Vault behave, the Hub's http.Client timeout bounds RegisterHandler.      *)
EveryRequestAnswered ==
    \A r \in Regs : client[r] = "sent" ~> client[r] \in {"ok", "failed"}

(* Defense in depth, Hub side: only requests that meet the section 4.1     *)
(* contract ever reach the Switch, whatever callers send.                   *)
ForwardedOnlyValid == \A r \in Regs : sw[r] # "idle" => Valid(req[r])

(* No layer fabricates success: when RegisterUser reports success for an   *)
(* attempt, the Vault accepted that very attempt with 201, even with        *)
(* attempts interleaved and the Hub timing out on some of them.             *)
ClientSuccessImpliesVaultAccepted ==
    \A r \in Regs : client[r] = "ok" => vault[r] = "answered" /\ vaultResp[r].status = 201

(* Spec scenario 1: a registration answered 201 leaves a row for the user  *)
(* in the users table (and scenario 2: a repeat is then a conflict).       *)
SuccessMeansStored == \A r \in Regs : client[r] = "ok" => req[r].who \in users

(* Spec 4.2, 7 and the status table: the Hub answers with the status of   *)
(* what happened downstream -- the Switch's own status when it answered    *)
(* (a Vault 500 stays 500), 502 when the Switch refused the connection,    *)
(* 504 when the call to it timed out.                                       *)
HubStatusPerSpec ==
    \A r \in Regs : hub[r] = "answered" =>
        /\ link[r] = "up" /\ sw[r] = "answered" => hubResp[r].status = swResp[r].status
        /\ link[r] = "refused" => hubResp[r].status = 502
        /\ link[r] \in {"dialTimeout", "handshakeTimeout", "clientTimeout"}
             => hubResp[r].status = 504

=============================================================================
