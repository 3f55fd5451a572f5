------------------------------ MODULE PromptCache ------------------------------
(* PromptCacheEpochManager of src/orchestrator/promptCache.ts, for one          *)
(* conversation.  An epoch repeats the prompt of its first turn byte for byte   *)
(* and adds the turns that came after, so that the provider's cache hits.  The  *)
(* store stays the truth: whatever does not agree with it is rebuilt.           *)
EXTENDS Integers, Sequences

CONSTANTS
  Turn,        \* the turns of the conversation, with an id of their own each
  Trusted,     \* turns of an allow-listed principal
  Reaction,    \* reaction turns, whose system prompt is another one
  NoTurn,
  Limit        \* history limit, in records of the store

ASSUME CacheAssumption ==
  Trusted \subseteq Turn /\ Reaction \subseteq Turn /\ NoTurn \notin Turn /\ Limit \in Nat \ {0}

VARIABLES
  cache,       \* the state in the map: an epoch, or NoEpoch
  plan         \* the plan each running turn was given, or NoPlan

(* An epoch is named by the turn that opened it.  A record of the history is    *)
(* known by its turn and how the turn ended; a note of /stop has no turn.       *)
Record == [of : Turn \cup {NoTurn}, as : {"reply", "failed", "interrupted", "note"}]
Reply(t) == [of |-> t, as |-> "reply"]
Note == [of |-> NoTurn, as |-> "note"]

NoEpoch == [id |-> NoTurn, base |-> <<>>, turns |-> <<>>, active |-> FALSE,
            trusted |-> FALSE, reaction |-> FALSE]
NoPlan == [id |-> NoTurn, base |-> <<>>, turns |-> <<>>, retain |-> FALSE]

Epoch == [id : Turn \cup {NoTurn}, base : Seq(Record), turns : Seq(Record), active : BOOLEAN,
          trusted : BOOLEAN, reaction : BOOLEAN]
Plan == [id : Turn \cup {NoTurn}, base : Seq(Record), turns : Seq(Record), retain : BOOLEAN]

LastOf(s, n) == SubSeq(s, IF Len(s) > n THEN Len(s) - n + 1 ELSE 1, Len(s))

canonicalHistory(e) == e.base \o e.turns
Prompt(t) == canonicalHistory(plan[t])

New(t, history) == [id |-> t, base |-> history, turns |-> <<>>, active |-> FALSE,
                    trusted |-> t \in Trusted, reaction |-> t \in Reaction]
-----------------------------------------------------------------------------
(* Plausible bugs: the history is not compared, or an empty one passes; the     *)
(* provenance of the epoch is not compared.                                     *)
SameAnyway(e, history) == TRUE
SameAsFar(e, history) ==
  \/ history = LastOf(canonicalHistory(e), Limit)
  \/ history = <<>>
SameTrustAnyway(e, t) == TRUE

sameHistory(e, history) == history = LastOf(canonicalHistory(e), Limit)
sameTrust(e, t) == e.trusted = (t \in Trusted)

(* Any other change of the system prompt or of the tools (changed) counts too.  *)
mustRebase(e, t, history, changed) ==
  \/ e = NoEpoch
  \/ e.active
  \/ ~sameTrust(e, t)
  \/ e.reaction # (t \in Reaction)
  \/ changed
  \/ ~sameHistory(e, history)

(* over: the prompt is larger than the epoch budget; still: it is so without    *)
(* the turns of the epoch, too.                                                 *)
prepare(t, history) ==
  \E changed, over, still \in BOOLEAN :
    LET e == IF mustRebase(cache, t, history, changed) THEN New(t, history) ELSE cache
        f == IF over /\ e.turns # <<>> THEN New(t, history) ELSE e
    IN /\ still => over
       /\ over /\ e.turns = <<>> => still
       /\ cache' = [f EXCEPT !.active = TRUE]
       /\ plan' = [plan EXCEPT ![t] =
                     [id |-> f.id, base |-> f.base, turns |-> f.turns, retain |-> ~still]]

Serving(t) == cache # NoEpoch /\ cache.id = plan[t].id

(* complete; an epoch that was replaced or deleted is left alone.               *)
complete(t) ==
  /\ cache' = CASE ~Serving(t) -> cache
                [] Serving(t) /\ ~plan[t].retain -> NoEpoch
                [] OTHER -> [cache EXCEPT !.active = FALSE, !.turns = Append(@, Reply(t))]
  /\ plan' = [plan EXCEPT ![t] = NoPlan]

fail(t) ==
  /\ cache' = IF Serving(t) THEN [cache EXCEPT !.active = FALSE] ELSE cache
  /\ plan' = [plan EXCEPT ![t] = NoPlan]

(* A held turn closes the epoch.                                                *)
invalidate == cache' = NoEpoch /\ UNCHANGED plan
=============================================================================
