----------------------------- MODULE EntryStore -----------------------------
(***************************************************************************)
(* What a branch's content store promises whoever reads and edits entries, *)
(* without its files' names, locks, indexes and rounds: a slug shows one   *)
(* entry or none, and a request is one step on it.  A save replaces the    *)
(* version it was asked to replace and nothing else, or has no effect.     *)
(* Only a rename is two steps, after the first of which both slugs show    *)
(* the entry, for a while or, when it is cut short, until a repair.  The   *)
(* promise ends with the exclusion it rests on.                            *)
(***************************************************************************)
CONSTANTS
  Request, Slug, Original, Absent,
  Operation      \* [kind, at, to, token]: what a request may ask for

VARIABLES
  entry,         \* whose the entry is that each slug shows: its id
  content,       \* what it holds: a request that saved it, or its first content
  ask,           \* what each request asks for
  state,         \* how far it has got
  exclusive      \* nobody unordered was let in beside the lock's holder

vars == <<entry, content, ask, state, exclusive>>

Init ==
  /\ entry \in [Slug -> Original \union {Absent}]
  /\ \A s, t \in Slug : entry[s] = entry[t] /\ entry[s] # Absent => s = t
  /\ content = entry
  /\ ask = [r \in Request |-> Absent]
  /\ state = [r \in Request |-> "new"]
  /\ exclusive = TRUE

To(r, s) == state' = [state EXCEPT ![r] = s] /\ UNCHANGED <<ask, exclusive>>

Ask(r) ==
  /\ state[r] = "new" /\ state' = [state EXCEPT ![r] = "asked"]
  /\ \E o \in Operation : ask' = [ask EXCEPT ![r] = o]
  /\ UNCHANGED <<entry, content, exclusive>>

Asked(r, kind) == state[r] = "asked" /\ ask[r].kind = kind

(* The version that is asked for is replaced; for none, an entry is made.  *)
Save(r) ==
  LET s == ask[r].at
  IN  /\ Asked(r, "write")
      /\ content[s] = ask[r].token
      /\ entry' = IF entry[s] = Absent THEN [entry EXCEPT ![s] = r] ELSE entry
      /\ content' = [content EXCEPT ![s] = r]
      /\ To(r, "done")

Show(s, i, c) ==
  entry' = [entry EXCEPT ![s] = i] /\ content' = [content EXCEPT ![s] = c]

Delete(r) ==
  /\ Asked(r, "delete")
  /\ entry[ask[r].at] # Absent /\ Show(ask[r].at, Absent, Absent)
  /\ To(r, "done")

(* A rename shows the entry at a free slug, and takes it from its own.     *)
Copy(r) ==
  LET s == ask[r].at
  IN  /\ Asked(r, "rename")
      /\ entry[s] # Absent /\ entry[ask[r].to] = Absent
      /\ Show(ask[r].to, entry[s], content[s])
      /\ To(r, "copied")

Drop(r) ==
  LET s == ask[r].at
  IN  /\ state[r] = "copied"
      /\ entry[ask[r].to] = entry[s] /\ content[ask[r].to] = content[s]
      /\ Show(s, Absent, Absent)
      /\ To(r, "done")

(* A repair only takes away what another slug shows an entry of as well.   *)
Archive(r) ==
  /\ Asked(r, "repair")
  /\ \E s, t \in Slug :
       /\ s # t /\ entry[s] = entry[t] /\ entry[s] # Absent
       /\ Show(s, Absent, Absent)
  /\ To(r, "asked") \/ To(r, "done")

(* What fails has no effect, or has had a rename's first.                  *)
Fail(r) ==
  /\ state[r] \in {"asked", "copied"} /\ To(r, "failed")
  /\ UNCHANGED <<entry, content>>

(* A save is answered 200 only once it is done.                            *)
Answer(r) ==
  /\ state[r] = "done" /\ ask[r].kind = "write"
  /\ state' = [state EXCEPT ![r] = "saved"]
  /\ ask' = [ask EXCEPT ![r] = Absent]
  /\ UNCHANGED <<entry, content, exclusive>>

(* Any other answer, or none: a killed container's requests end at once.   *)
End(S) ==
  /\ \A r \in S : state[r] \in {"asked", "copied", "done", "failed"}
  /\ state' = [r \in Request |-> IF r \in S THEN "over" ELSE state[r]]
  /\ ask' = [r \in Request |-> IF r \in S THEN Absent ELSE ask[r]]
  /\ UNCHANGED <<entry, content, exclusive>>

(* The exclusion is broken for good. *)
GiveUp == exclusive' = FALSE

Next ==
  \/ \E S \in SUBSET Request : End(S)
  \/ \E r \in Request :
       \/ Ask(r) \/ Save(r) \/ Delete(r) \/ Copy(r) \/ Drop(r) \/ Archive(r)
       \/ Fail(r) \/ Answer(r)
  \/ GiveUp

Spec == Init /\ [][Next]_vars
=============================================================================
