---------------------------- MODULE GatewayConfig ----------------------------
(***************************************************************************)
(* What startup makes of the lists in the environment: the limits of       *)
(* RATE_LIMIT_MODELS (config.go), MODEL_ALLOWLIST (policy.go), the tenant  *)
(* table and the secrets of gateway authentication (auth), and whether the *)
(* process starts at all.                                                  *)
(*                                                                         *)
(* An entry of a list is the sequence of its fields: <<>> is blank,        *)
(* <<name>> has no separator.  A limit that is no number is 0.             *)
(***************************************************************************)
EXTENDS Integers, Sequences, FiniteSets

CONSTANTS
  ProviderOf  \* [models -> providers]: strings.Cut at the first slash

Models == DOMAIN ProviderOf
Providers == {ProviderOf[m] : m \in Models}

Entries(list) == {list[i] : i \in DOMAIN list} \ {<<>>}
Names(list) == {e[1] : e \in Entries(list)}
Fields(list) == UNION {{list[i][j] : j \in DOMAIN list[i]} : i \in DOMAIN list}
IsList(list) == list \in Seq(Seq(Fields(list)))
Sound(e) == Len(e) = 2

\* The last entry of a name.
LastOf(list, name) ==
  CHOOSE i \in DOMAIN list :
    /\ list[i] # <<>> /\ list[i][1] = name
    /\ \A j \in (i + 1)..Len(list) : list[j] = <<>> \/ list[j][1] # name

\* parseModelLimits: of two limits for a model the later one holds.
SoundLimits(list) == \A e \in Entries(list) : Sound(e) /\ e[2] > 0
ModelLimits(list) == [m \in Names(list) |-> list[LastOf(list, m)][2]]

\* ParseStaticSecrets: of two values for a reference neither does.
SoundSecrets(list) ==
  /\ \A e \in Entries(list) : Sound(e) /\ e[1] # ""
  /\ \A i, j \in DOMAIN list :
       list[i] # <<>> /\ list[j] # <<>> /\ list[i][1] = list[j][1] => i = j
StaticSecrets(list) == [ref \in Names(list) |-> list[LastOf(list, ref)][2]]

\* NewResolver: the table is keyed by the hash of the gateway key.
HashKey(token) == <<"sha256", token>>
SoundTenants(table) == \A hash \in DOMAIN table : table[hash].tenant # ""

\* loadConfig and buildCredentialResolver: anything malformed ends the
\* process, the lists of gateway authentication only if it is enabled.
Starts(c) ==
  /\ SoundLimits(c.modelLimits)
  /\ c.gatewayAuth => SoundSecrets(c.secrets) /\ SoundTenants(c.tenants)

\* Mutant of Allows: one model of a provider admits the others.
AllowsProviderOf(c, m) ==
  \/ Names(c.allowlist) = {}
  \/ \E n \in Names(c.allowlist) :
       ProviderOf[m] \in {n} \cup {ProviderOf[x] : x \in Models \cap {n}}

\* NewModelAllowlist and Allows: an entry is a model or a provider, and a list
\* of none allows all.
Allows(c, m) ==
  \/ Names(c.allowlist) = {}
  \/ {m, ProviderOf[m]} \cap Names(c.allowlist) # {}

\* handlerRateLimitConfig: the key's tag; an exact model beats the provider.
ModelTag(c, m) ==
  IF m \in Names(c.modelLimits) THEN <<"model", m>> ELSE <<"provider", ProviderOf[m]>>

\* And its limit, 0 for none.
LimitOf(c, tag) ==
  CASE tag[1] = "global" -> c.globalLimit
    [] tag[1] = "stream" -> c.streamLimit
    [] tag[1] = "model" -> ModelLimits(c.modelLimits)[tag[2]]
    [] tag[1] = "provider" -> c.providerLimits[tag[2]]

\* Resolver.Authenticate and Resolve: ref, ok := t.secrets[provider], then the
\* source.
KnownTenant(c, t) == HashKey(t) \in DOMAIN c.tenants
SecretOf(c, t, p, noSecret, unavailable) ==
  LET refs == c.tenants[HashKey(t)].providers
      values == StaticSecrets(c.secrets)
  IN  CASE p \notin DOMAIN refs -> noSecret
        [] p \in DOMAIN refs /\ refs[p] \notin DOMAIN values -> unavailable
        [] OTHER -> values[refs[p]]
=============================================================================
