CONSTANTS
    r1 = r1
    r2 = r2
    Regs <- MCRegs
    Requests <- MCRequests
    SwitchLinks = {"up", "refused", "dialTimeout", "handshakeTimeout", "unknownAuthority", "wrongOrg", "noChain"}
    VaultCrypto = {"ok", "badKey"}
    HubCertFiles = {"ok", "missing"}
SPECIFICATION Spec
INVARIANTS
    HubStatusPerSpec
CHECK_DEADLOCK FALSE
