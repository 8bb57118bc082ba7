-------------------------- MODULE HarnessSettings --------------------------
(***************************************************************************)
(* The scripts that change the settings of the user's Harness:             *)
(* harness-search-check.py, which points the search namespace at the local *)
(* endpoint for a while, and several runs of harness-configure.py, which   *)
(* adds a provider with a credential of its own.  The user edits the same  *)
(* settings meanwhile.  Each mutation names the revision it was made for,  *)
(* and every call may fail before or after its effect.                     *)
(***************************************************************************)
EXTENDS Naturals, FiniteSets

CONSTANTS
  Configurers,  \* runs of harness-configure.py
  MaxEdits,     \* edits by the user
  None          \* no provider

ASSUME EditsAssumption == MaxEdits \in Nat /\ None \notin Configurers

VARIABLES
  search,       \* the namespace web-search-deepseek: its fields and revision
  chosen,       \* what it held at first, or the user has chosen since
  llm,          \* llm-pi-ai: whose credential the provider names, and revision
  credentials,  \* the references with a stored credential
  edits,
  probe,        \* harness-search-check.py: where it is
  current,      \* the namespace as it last read it
  restore,      \* the contents it will bring back
  changed,
  restored,     \* the check configuration_restored: "unset", "yes" or "no"
  configure,    \* each harness-configure.py: where it is
  read          \* and the namespace as it read it

probeVars == <<probe, current, restore, changed, restored>>
settingsVars == <<search, chosen, llm, credentials, edits, probeVars, configure, read>>

\* Contents of the search namespace: the user's, or the local route.
Contents == {"first", "second", "route"}

\* The route may have been left behind by an earlier run.
SettingsInit ==
  /\ chosen \in Contents /\ search = [value |-> chosen, revision |-> 0]
  /\ llm = [value |-> None, revision |-> 0]
  /\ credentials = {} /\ edits = 0
  /\ probe = "describe" /\ current = search /\ restore = "first" /\ changed = FALSE
  /\ restored = "unset"
  /\ configure = [c \in Configurers |-> "describe"] /\ read = [c \in Configurers |-> llm]

\* A plausible slip: the revision a mutation was made for is not compared.
MutatedBlindly(ns, expected, value) == [value |-> value, revision |-> ns.revision + 1]

\* settings/mutate with expectedRevision; a conflict changes nothing.
Mutated(ns, expected, value) ==
  IF ns.revision = expected THEN [value |-> value, revision |-> ns.revision + 1] ELSE ns

-----------------------------------------------------------------------------
(* harness-search-check.py                                                 *)

Go(to) == probe' = to /\ UNCHANGED <<chosen, llm, credentials, edits, configure, read>>

\* The namespace is read before anything else; without the local provider,
\* or with tasks running, the script ends there.
Describe ==
  /\ probe = "describe" /\ current' = search /\ restore' = search.value
  /\ \/ llm.value # None /\ Go("route")
     \/ Go("refused")
  /\ UNCHANGED <<search, changed, restored>>

\* Both fields are set in one mutation, and noted once it is answered.
Route ==
  /\ probe = "route" /\ search' = Mutated(search, current.revision, "route")
  /\ \/ search' # search /\ changed' = TRUE /\ Go("prompt")
     \/ changed' = FALSE /\ Go("cleanup")
  /\ UNCHANGED <<current, restore, restored>>

RouteUnsent == probe = "route" /\ Go("cleanup") /\ UNCHANGED <<search, current, restore, changed, restored>>

\* The search itself, and its clean-up, end one way or another.
SearchPrompt == probe = "prompt" /\ Go("cleanup") /\ UNCHANGED <<search, current, restore, changed, restored>>

\* A plausible slip: the route is taken for granted.
RereadBlindly ==
  /\ probe = "cleanup" /\ changed /\ current' = search /\ Go("restore")
  /\ UNCHANGED <<search, restore, changed, restored>>

\* Settings the user has changed since are left alone.
Reread ==
  /\ probe = "cleanup" /\ changed
  /\ \/ search.value = "route" /\ current' = search /\ restored' = restored /\ Go("restore")
     \/ search.value # "route" /\ current' = current /\ restored' = "no" /\ Go("done")
  /\ UNCHANGED <<search, restore, changed>>

Unchanged ==
  probe = "cleanup" /\ ~changed /\ Go("done") /\ UNCHANGED <<search, current, restore, changed, restored>>

Restore ==
  /\ probe = "restore" /\ search' = Mutated(search, current.revision, restore)
  /\ search' # search /\ Go("verify") /\ UNCHANGED <<current, restore, changed, restored>>

Verify ==
  /\ probe = "verify" /\ restored' = IF search.value = restore THEN "yes" ELSE "no"
  /\ Go("done") /\ UNCHANGED <<search, current, restore, changed>>

\* A call of the restoration fails, a mutation perhaps after its effect.
RestoreFails ==
  /\ probe \in {"cleanup", "restore", "verify"} /\ changed /\ restored' = "no" /\ Go("done")
  /\ search' \in {search, IF probe = "restore" THEN Mutated(search, current.revision, restore) ELSE search}
  /\ UNCHANGED <<current, restore, changed>>

-----------------------------------------------------------------------------
(* harness-configure.py                                                    *)

\* An existing provider is left as it is.
ConfigureDescribe(c) ==
  /\ configure[c] = "describe" /\ read' = [read EXCEPT ![c] = llm]
  /\ configure' = [configure EXCEPT ![c] = IF llm.value # None THEN "done" ELSE "credential"]
  /\ UNCHANGED <<search, chosen, llm, credentials, edits, probeVars>>

\* A plausible slip: the provider is added first.
SetCredentialLater(c) ==
  /\ configure[c] = "credential" /\ configure' = [configure EXCEPT ![c] = "mutate"]
  /\ UNCHANGED <<search, chosen, llm, credentials, edits, probeVars, read>>

\* The credential gets a reference nobody else uses.
SetCredential(c) ==
  /\ configure[c] = "credential" /\ credentials' = credentials \cup {c}
  /\ configure' = [configure EXCEPT ![c] = "mutate"]
  /\ UNCHANGED <<search, chosen, llm, edits, probeVars, read>>

AddProvider(c) ==
  /\ configure[c] = "mutate" /\ llm' = Mutated(llm, read[c].revision, c)
  /\ configure' = [configure EXCEPT ![c] = "done"]
  /\ UNCHANGED <<search, chosen, credentials, edits, probeVars, read>>

ConfigureFails(c) ==
  /\ configure[c] # "done" /\ configure' = [configure EXCEPT ![c] = "done"]
  /\ credentials' \in {credentials, IF configure[c] = "credential" THEN credentials \cup {c} ELSE credentials}
  /\ UNCHANGED <<search, chosen, llm, edits, probeVars, read>>

-----------------------------------------------------------------------------
\* The user changes the search settings, or other settings of llm-pi-ai.
UserEdit ==
  /\ edits < MaxEdits /\ edits' = edits + 1
  /\ \/ /\ chosen' \in {"first", "second"} /\ UNCHANGED llm
        /\ search' = [value |-> chosen', revision |-> search.revision + 1]
     \/ llm' = [llm EXCEPT !.revision = @ + 1] /\ UNCHANGED <<search, chosen>>
  /\ UNCHANGED <<credentials, probeVars, configure, read>>

Probe ==
  \/ Describe \/ Route \/ RouteUnsent \/ SearchPrompt \/ Reread \/ Unchanged \/ Restore \/ Verify
  \/ RestoreFails

Configure(c) ==
  ConfigureDescribe(c) \/ SetCredential(c) \/ AddProvider(c) \/ ConfigureFails(c)

SettingsNext == Probe \/ UserEdit \/ \E c \in Configurers : Configure(c)

SettingsSpec == SettingsInit /\ [][SettingsNext]_settingsVars

-----------------------------------------------------------------------------
(* Properties                                                              *)

SettingsTypeOK ==
  /\ search \in [value : Contents, revision : Nat] /\ chosen \in Contents
  /\ llm \in [value : Configurers \cup {None}, revision : Nat]
  /\ credentials \subseteq Configurers /\ edits \in 0 .. MaxEdits
  /\ probe \in {"describe", "route", "prompt", "cleanup", "restore", "verify", "done", "refused"}
  /\ current \in [value : Contents, revision : Nat] /\ restore \in Contents
  /\ changed \in BOOLEAN /\ restored \in {"unset", "yes", "no"}
  /\ configure \in [Configurers -> {"describe", "credential", "mutate", "done"}]
  /\ read \in [Configurers -> [value : Configurers \cup {None}, revision : Nat]]

\* The scripts lose nobody's change: the search settings they replace are the
\* ones they read, and a provider that exists is never replaced.
ForeignChangesKept ==
  [][/\ search.value # search'.value /\ edits' = edits => search.value = current.value
     /\ llm.value # None => llm'.value = llm.value]_settingsVars

\* A configuration reported as restored is the user's own: the one that was
\* found, or what the user has chosen meanwhile or since, whenever the user
\* edits and whichever answer is lost.  It is the local route only when the
\* script found the route there, left behind by an earlier run.
RestoredMeansUsersOwn == restored = "yes" => search.value = chosen

\* A provider that is configured has its credential, whichever of several
\* configurations came first and wherever they failed.
ProviderHasCredential == llm.value # None => llm.value \in credentials
=============================================================================
