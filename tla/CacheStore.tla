------------------------------ MODULE CacheStore ------------------------------
(***************************************************************************)
(* The cache file over many processes: an owner that makes the calls of    *)
(* CacheFile one after the other, as SectionBuffer and the tests do, ends  *)
(* at any point and starts again.  Two histories record what the owner was *)
(* told, and are compared with what openRead() finds later.                *)
(***************************************************************************)
EXTENDS CacheFile

VARIABLES
    stored,     \* sections in the file when a writer was closed, not marked bad
    erased      \* sections whose erasure was in the file when it was closed

allVars == <<vars, stored, erased>>

StoreInit == Init /\ stored = {} /\ erased = {}

Keep == UNCHANGED <<stored, erased>>

Ready == inst = "ready"

Closed ==
    /\ CloseEnd
    /\ stored' = Ids(sections)
    /\ erased' = erased \union
            {recs[recs[j].at].id : j \in {j \in DOMAIN recs : recs[j].kind = "erase"}}

Marked ==
    /\ Ready
    /\ \E i \in DOMAIN sections :
           /\ MarkBad(i)
           /\ stored' = stored \ {sections[i].id}
           /\ UNCHANGED erased

Removed == Ready /\ Destroy /\ stored' = {} /\ UNCHANGED erased

StoreNext ==
    \/ OpenRead /\ Keep
    \/ Ready /\ ~meta /\ PrepareCreate /\ Keep
    \/ CreateEnd /\ Keep
    \/ Ready /\ PrepareAppend /\ Keep
    \/ WritePart /\ Keep
    \/ WriteEnd /\ Keep
    \/ \E emit \in BOOLEAN : CloseWriter(emit) /\ Keep
    \/ Ready /\ CommitBadBlock /\ Keep
    \/ EraseNext /\ Keep
    \/ Ready /\ StartEmitting /\ Keep
    \/ StopEmitting /\ Keep
    \/ Closed
    \/ Marked
    \/ Removed
    \/ Crash /\ Keep
    \/ Renew /\ Keep

\* The owner opens the instance it has made, and drops one that failed.
StoreFairness ==
    /\ WF_allVars(OpenRead /\ Keep)
    /\ WF_allVars(inst = "failed" /\ Renew /\ Keep)

StoreSpec == StoreInit /\ [][StoreNext]_allVars /\ StoreFairness

-----------------------------------------------------------------------------
(* Properties. *)

\* What was in the file when a writer was closed is found again by every later
\* instance, whatever was written, torn and cut off after it.
RecoversStored == Ready => stored \subseteq Ids(sections)

\* A section whose erasure reached the file never comes back, although erasures
\* name positions and positions are used again after a truncation.
ErasedStaysErased == Ready => Ids(sections) \intersect erased = {}

\* Every part an instance offers stands where it says and is the section it was
\* written as.  One whose openRead() threw FileDataError offers one part more, the
\* last: the torn section, which it has cut off.
PartsPointAtData ==
    inst # "gone" =>
        \A i \in DOMAIN sections :
            \/ /\ sections[i].at \in DOMAIN recs
               /\ recs[sections[i].at] = Section(sections[i].id)
            \/ inst = "failed" /\ i = Len(sections) /\ sections[i].at = Len(recs) + 1

\* Once the header is in the file, a process that ends anywhere costs the next
\* ones at most a failed start.
StartsAgain == (landed > 0 /\ inst = "new") ~> (inst = "ready" \/ ~exists)
=============================================================================
