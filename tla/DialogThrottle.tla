--------------------------- MODULE DialogThrottle ---------------------------
(***************************************************************************)
(* Relief from dialog fatigue (packages/snap/src/rpc/throttle.ts): a site  *)
(* whose dialogs the user keeps rejecting, or never answers, is refused    *)
(* dialogs for a while.  The actions say how entries changes; they are     *)
(* conjoined with the request's own step in module RequestGate.            *)
(***************************************************************************)
EXTENDS RecencyMap

CONSTANTS
    MAX_CONSECUTIVE_REJECTIONS,
    MAX_UNANSWERED_DIALOGS,
    COOLDOWN_MS,
    MAX_TRACKED_ORIGINS

ASSUME ThrottleAssumption ==
    {MAX_CONSECUTIVE_REJECTIONS, MAX_UNANSWERED_DIALOGS, COOLDOWN_MS,
     MAX_TRACKED_ORIGINS} \subseteq Nat \ {0}

VARIABLE entries  \* recency map: site -> its throttle entry

\* Times start at 1, so that no cooldown ends at 0.
CleanSlate == [rejections |-> 0, opened |-> 0, blockedUntil |-> 0]

ThrottleEntry == [rejections : Nat, opened : Nat, blockedUntil : Nat]

EntryOf(o) == Lookup(entries, o, CleanSlate)

\* entryFor, and the update of the entry it returns.
SetEntry(o, entry) ==
    entries' = IF HasKey(entries, o) THEN Touch(entries, o, entry)
               ELSE Insert(EvictIfFull(entries, MAX_TRACKED_ORIGINS), o, entry)

Blocked(o, now) == now < EntryOf(o).blockedUntil

\* The cooldown starts, and both counts start over.
CoolDown(now) == [CleanSlate EXCEPT !.blockedUntil = now + COOLDOWN_MS]

\* assertDialogAllowed: an expired cooldown clears the slate, a refusal keeps
\* the record of the cooldown recently used.
DialogChecked(o, now) ==
    LET entry == EntryOf(o)
    IN entries' = IF entry.blockedUntil = 0 THEN entries
                  ELSE IF now >= entry.blockedUntil THEN Delete(entries, o)
                  ELSE Touch(entries, o, entry)

recordDialogRejection(o, now) ==
    LET entry == EntryOf(o)
    IN SetEntry(o, IF entry.rejections + 1 >= MAX_CONSECUTIVE_REJECTIONS
                   THEN CoolDown(now)
                   ELSE [entry EXCEPT !.rejections = @ + 1])

\* Mutant: reaching the limit clears the count and starts no cooldown.
RecordWithoutCooldown(o, now) ==
    LET entry == EntryOf(o)
    IN SetEntry(o, IF entry.opened + 1 >= MAX_UNANSWERED_DIALOGS
                   THEN CleanSlate
                   ELSE [entry EXCEPT !.opened = @ + 1])

recordDialogOpened(o, now) ==
    LET entry == EntryOf(o)
    IN SetEntry(o, IF entry.opened + 1 >= MAX_UNANSWERED_DIALOGS
                   THEN CoolDown(now)
                   ELSE [entry EXCEPT !.opened = @ + 1])

\* Mutant: an approval leaves the counts as they are.
KeepCounts(o) == UNCHANGED entries

clearDialogRejections(o) == entries' = Delete(entries, o)
=============================================================================
