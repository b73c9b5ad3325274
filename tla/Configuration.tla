---------------------------- MODULE Configuration ----------------------------
(***************************************************************************)
(* The getters of ApplicationConfigService                                 *)
(* (app/src/config/application-config.service.ts): each returns a part of  *)
(* the settings or throws.  An operator here is true of the settings its   *)
(* getter returns for.                                                     *)
(*                                                                         *)
(* c is a record with one field per environment variable that a getter     *)
(* looks at.  A text is its value where the code compares it, otherwise    *)
(* "given", "blank" (white space) or "absent" (empty or undefined); a URL  *)
(* is named by what is wrong with it.                                      *)
(***************************************************************************)
EXTENDS Integers

Production(c) == c.environment = "production"

\* value?.trim() is not empty.
Given(value) == value \notin {"blank", "absent"}

\* positiveInteger, networkPort
Positive(n) == n \in Nat \ {0}
Port(n) == n \in 1..65535

\* provider
Provider(c) == c.provider \in {"fake", "openai"}

\* canonicalOpenAiBaseUrl: absolute, HTTP or HTTPS, no credentials, query or fragment.
CanonicalBaseUrl(url) == url \in {"http", "https"}

\* openAiGeneral
OpenAiGeneral(c) == Positive(c.requestTimeoutMs)

\* openAiStructuredOutputMode, openAiCapabilityVersion, openAiTransport: known
\* values, and the capability version of the transport.
KnownOpenAiValues(c) ==
    /\ c.structuredOutputMode \in {"json-object", "json-schema-strict"}
    /\ <<c.capabilityVersion, c.transport>> \in
           {<<"responses-json-v1", "responses">>,
            <<"chat-completions-json-v1", "chat-completions">>}

\* llmProvider: a fake provider needs nothing, but not in production; the other
\* needs all of its settings.
LlmProvider(c) ==
    /\ Provider(c)
    /\ Production(c) => c.provider = "openai"
    /\ c.provider = "openai" =>
           /\ OpenAiGeneral(c)
           /\ \A value \in {c.apiKey, c.baseUrl, c.capabilityVersion, c.model,
                            c.structuredOutputMode, c.transport} : Given(value)
           /\ KnownOpenAiValues(c)
           /\ CanonicalBaseUrl(c.baseUrl)

\* application: the three files of the internal TLS listener are configured
\* together or not at all, and then the client's identity is named.
InternalMtlsEnabled(c) == \A path \in {c.caPath, c.certPath, c.keyPath} : Given(path)

Application(c) ==
    /\ InternalMtlsEnabled(c) \/ \A path \in {c.caPath, c.certPath, c.keyPath} : ~Given(path)
    /\ InternalMtlsEnabled(c) => c.expectedClientSpiffeUri = "go-worker"
    /\ Port(c.internalMtlsPort)

DatabaseSslMode(c) == c.sslMode \in {"disabled", "verify-ca"}

\* database
Database(c) ==
    /\ DatabaseSslMode(c)
    /\ c.sslMode = "verify-ca" => Given(c.sslCa)
    /\ Production(c) => c.sslMode # "disabled"

\* assertProductionStorage
ProductionStorage(c) ==
    Production(c) => c.useSSL /\ c.accessKey # "minioadmin" /\ c.secretKey # "minioadmin"

\* storage: its other settings are only required.
Storage(c) == ProductionStorage(c)

WorkerExecutionMode(c) == c.executionMode \in {"legacy-processing", "relay-only"}

\* worker: numbers are positive, the chunk lengths agree, the mode is known.
\* `sizes` holds the batch sizes, intervals and limits that nothing relates.
Worker(c) ==
    /\ \A n \in c.sizes \cup {c.chunkMaxChars, c.chunkOverlapChars, c.chunkTargetChars} :
           Positive(n)
    /\ WorkerExecutionMode(c)
    /\ Given(c.healthHost)
    /\ Port(c.healthPort)
    /\ c.chunkTargetChars <= c.chunkMaxChars
    /\ c.chunkOverlapChars < c.chunkMaxChars

=============================================================================
