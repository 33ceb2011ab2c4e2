---------------------------- MODULE OfficialApi ----------------------------
(***************************************************************************)
(* The official APIs of a platform (official-api.ts): a report of what is   *)
(* ready for a call, then the calls, each of which leaves a row, and a row  *)
(* that lists them.                                                         *)
(***************************************************************************)
EXTENDS Naturals, Sequences, FiniteSets, SequencesExt

CONSTANTS
    ApiTasks     \* [platform, media, credential, enabled], where credential gives, by
                 \* lookup, "absent", "unset" or "set"

VARIABLES
    api,         \* the task
    lookups,     \* those still to make, <<>> in the end
    apiRows,     \* [key, status, called], in order
    apiCache,    \* {} or {what the last row lists}
    apiStep      \* "start", "calls", "done" or "aborted"

apiVars == <<api, lookups, apiRows, apiCache, apiStep>>

LookupTemplates(platform) ==
    CASE platform = "youtube" -> <<"youtube-videos", "youtube-captions">>
      [] platform = "instagram" -> <<"instagram-media">>
      [] platform = "tiktok" -> <<"tiktok-video-query", "tiktok-research-video-query">>
      [] OTHER -> <<>>

\* The credential of each lookup is looked for, where there is one to make.
ASSUME ApiAssumption ==
    \A t \in ApiTasks : \A key \in ToSet(LookupTemplates(t.platform)) :
        t.credential[key] \in {"absent", "unset", "set"}

\* Every lookup is about one medium.
BuildLookups(t) == IF t.media THEN LookupTemplates(t.platform) ELSE <<>>

-----------------------------------------------------------------------------
(* Readiness: nobody is called                                             *)

CredentialState == [absent |-> "missing_reference", unset |-> "missing_env", set |-> "ready"]

ReadinessItems(t) ==
    LET templates == LookupTemplates(t.platform)
        status(key) == IF t.media THEN CredentialState[t.credential[key]] ELSE "missing_media_id"
    IN  [i \in DOMAIN templates |-> [key |-> templates[i], status |-> status(templates[i])]]

CountOf(t, status) == Cardinality({i \in DOMAIN ReadinessItems(t) : ReadinessItems(t)[i].status = status})

Readiness(t) ==
    [ready |-> CountOf(t, "ready"), missingMediaId |-> CountOf(t, "missing_media_id"),
     ok |-> BuildLookups(t) # <<>> /\ CountOf(t, "ready") = Len(BuildLookups(t))]

-----------------------------------------------------------------------------
(* The calls                                                               *)

ApiInit ==
    /\ api \in ApiTasks
    /\ lookups = <<>> /\ apiRows = <<>> /\ apiCache = {} /\ apiStep = "start"

ApiRow(key, status, called) == [key |-> key, status |-> status, called |-> called]

\* Without a medium there is a row for each lookup that would need one.
BeginCalls ==
    /\ apiStep = "start" /\ api.enabled
    /\ lookups' = BuildLookups(api)
    /\ apiRows' = IF api.media THEN <<>>
                  ELSE [i \in DOMAIN LookupTemplates(api.platform) |->
                            ApiRow(LookupTemplates(api.platform)[i], "missing_media_id", FALSE)]
    /\ apiStep' = "calls"
    /\ UNCHANGED <<api, apiCache>>

Disabled ==
    /\ apiStep = "start" /\ ~api.enabled
    /\ apiStep' = "done"
    /\ UNCHANGED <<api, lookups, apiRows, apiCache>>

\* Mutant: a lookup that fails ends the calls.
Lookup_FailureEnds ==
    /\ apiStep = "calls" /\ lookups # <<>>
    /\ LET key == Head(lookups) IN
       IF api.credential[key] # "set"
       THEN apiRows' = Append(apiRows, ApiRow(key, "credential-required", FALSE)) /\ lookups' = Tail(lookups)
       ELSE \E status \in {"ok", "error"} :
               /\ apiRows' = Append(apiRows, ApiRow(key, status, TRUE))
               /\ lookups' = IF status = "error" THEN <<>> ELSE Tail(lookups)
    /\ UNCHANGED <<api, apiCache, apiStep>>

\* A call that fails leaves a row and does not keep the others from being made.
Lookup ==
    /\ apiStep = "calls" /\ lookups # <<>>
    /\ LET key == Head(lookups) IN
       IF api.credential[key] # "set"
       THEN apiRows' = Append(apiRows, ApiRow(key, "credential-required", FALSE))
       ELSE \E status \in {"ok", "error"} : apiRows' = Append(apiRows, ApiRow(key, status, TRUE))
    /\ lookups' = Tail(lookups)
    /\ UNCHANGED <<api, apiCache, apiStep>>

\* Asked before each call, and by the call itself.
AbortCalls ==
    /\ apiStep = "calls" /\ lookups # <<>>
    /\ apiStep' = "aborted"
    /\ UNCHANGED <<api, lookups, apiRows, apiCache>>

ListCalls ==
    /\ apiStep = "calls" /\ lookups = <<>>
    /\ apiCache' = {[i \in DOMAIN apiRows |-> <<apiRows[i].key, apiRows[i].status>>]}
    /\ apiStep' = "done"
    /\ UNCHANGED <<api, lookups, apiRows>>

ApiNext == BeginCalls \/ Disabled \/ Lookup \/ AbortCalls \/ ListCalls

-----------------------------------------------------------------------------
\* Each lookup that the readiness report names comes to one row, in its order and
\* with what the report foretold: called if it was ready, by name of what was
\* missing otherwise; a failure takes no other lookup with it, and an abort
\* leaves the first of them and no list. (official-api.ts:62-231, 270-307)
ApiAsForetold ==
    LET items == ReadinessItems(api)
        foretold(item, row) ==
            /\ row.key = item.key
            /\ row.called <=> item.status = "ready"
            /\ row.status = "missing_media_id" <=> item.status = "missing_media_id"
    IN  /\ Len(apiRows) <= Len(items)
        /\ \A i \in DOMAIN apiRows : foretold(items[i], apiRows[i])
        /\ apiStep = "done" /\ api.enabled =>
               /\ Len(apiRows) = Len(items) /\ apiCache # {}
               /\ Readiness(api).ok <=> apiRows # <<>> /\ \A i \in DOMAIN apiRows : apiRows[i].called
               /\ Readiness(api).missingMediaId > 0 => Readiness(api).ready = 0
        /\ apiStep = "aborted" => apiCache = {} /\ Readiness(api).missingMediaId = 0

=============================================================================
