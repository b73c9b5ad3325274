------------------------------ MODULE MCRollout ------------------------------
(***************************************************************************)
(* The deployment and the inside of the Node processes.  The two           *)
(* specifications share no variable, so no step of one can affect a        *)
(* property of the other: each is run alone, beside the other's initial    *)
(* state, instead of through every interleaving of the two.                *)
(***************************************************************************)
EXTENDS Rollout, NodeProcesses

\* A good production configuration, and others that differ in one respect.

Good ==
    [environment |-> "production", provider |-> "openai", apiKey |-> "given",
     baseUrl |-> "https", capabilityVersion |-> "responses-json-v1", model |-> "given",
     requestTimeoutMs |-> 60000, structuredOutputMode |-> "json-object",
     transport |-> "responses", caPath |-> "given", certPath |-> "given", keyPath |-> "given",
     expectedClientSpiffeUri |-> "go-worker", internalMtlsPort |-> 3443,
     sslMode |-> "verify-ca", sslCa |-> "given", useSSL |-> TRUE, accessKey |-> "given",
     secretKey |-> "given", sizes |-> {1, 500}, chunkMaxChars |-> 1500,
     chunkOverlapChars |-> 150, chunkTargetChars |-> 1200,
     executionMode |-> "legacy-processing", healthHost |-> "given", healthPort |-> 3403,
     swagger |-> FALSE, swaggerUsername |-> "absent", swaggerPassword |-> "absent"]

Development ==
    [Good EXCEPT !.environment = "development", !.provider = "fake", !.sslMode = "disabled",
                 !.useSSL = FALSE, !.accessKey = "minioadmin", !.secretKey = "minioadmin"]

MCConfigurations ==
    {Good, Development, [Good EXCEPT !.executionMode = "relay-only"],
     [Good EXCEPT !.executionMode = "other"], [Good EXCEPT !.environment = "development"],
     [Good EXCEPT !.provider = "fake"], [Good EXCEPT !.provider = "other"],
     [Good EXCEPT !.executionMode = "relay-only", !.provider = "fake"],
     [Good EXCEPT !.apiKey = "blank"], [Good EXCEPT !.baseUrl = "credentials"],
     [Good EXCEPT !.transport = "chat-completions"],
     [Good EXCEPT !.transport = "chat-completions",
                  !.capabilityVersion = "chat-completions-json-v1"],
     [Good EXCEPT !.structuredOutputMode = "other"], [Good EXCEPT !.requestTimeoutMs = 0],
     [Good EXCEPT !.keyPath = "absent"], [Good EXCEPT !.expectedClientSpiffeUri = "absent"],
     [Good EXCEPT !.caPath = "absent", !.certPath = "absent", !.keyPath = "absent"],
     [Good EXCEPT !.internalMtlsPort = 0], [Good EXCEPT !.sslMode = "disabled"],
     [Good EXCEPT !.sslMode = "other"], [Good EXCEPT !.sslCa = "absent"],
     [Good EXCEPT !.useSSL = FALSE], [Good EXCEPT !.secretKey = "minioadmin"],
     [Good EXCEPT !.sizes = {0}], [Good EXCEPT !.chunkTargetChars = 1501],
     [Good EXCEPT !.chunkOverlapChars = 1500], [Good EXCEPT !.healthHost = "blank"],
     [Good EXCEPT !.healthPort = 65536], [Good EXCEPT !.swagger = TRUE],
     [Good EXCEPT !.swagger = TRUE, !.swaggerUsername = "given", !.swaggerPassword = "given"]}

Undeployed == deploys = 0 /\ commands = 0
Unstarted == worker = "loading" /\ api = "loading" /\ disk = 1 /\ config = Good

MCInit == Init /\ ProcessInit

MCNext ==
    \/ Next /\ Unstarted /\ UNCHANGED processVars
    \/ ProcessNext /\ Undeployed /\ UNCHANGED vars

MCSpec ==
    /\ MCInit
    /\ [][MCNext]_<<vars, processVars>>
    /\ Fairness /\ ProcessFairness
=============================================================================
