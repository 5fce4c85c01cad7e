----------------------------- MODULE Reception -----------------------------
(***************************************************************************)
(* What the receiver promises its user, whatever frames are seen, by which *)
(* threads and in which order: in a reception each transfer is settled at  *)
(* most once, as one new file or as an error; a file goes to a name that   *)
(* is free and stays there until the user deletes it; every file is told   *)
(* to the user once, in the order they came, and counted.  A new reception *)
(* forgets all but the files.                                              *)
(***************************************************************************)
EXTENDS Naturals, Sequences

CONSTANTS
    Transfers,      \* what senders have shown
    MaxNames,       \* bound: names there are for files
    MaxSessions,    \* bound: receptions
    NoFile

VARIABLES
    settled,     \* the transfers of this reception that have an outcome
    files,       \* the files, by number of the name
    untold,      \* names of the reception's files the user has still to be told
    told,        \* those the user was told
    saved,       \* how many files the reception has brought
    failed,      \* and how many errors
    session

vars == <<settled, files, untold, told, saved, failed, session>>

Names == 1 .. MaxNames

FileOf(f) == [from |-> {f}, session |-> session]

Init ==
    /\ settled = {} /\ untold = <<>> /\ told = {} /\ saved = 0 /\ failed = 0
    /\ session = 1 /\ files = [n \in Names |-> NoFile]

Save(f, n) ==
    /\ files[n] = NoFile /\ \A m \in 1 .. n - 1 : files[m] # NoFile
    /\ files' = [files EXCEPT ![n] = FileOf(f)]
    /\ f \notin settled /\ settled' = settled \cup {f}
    /\ untold' = Append(untold, n) /\ saved' = saved + 1
    /\ UNCHANGED <<told, failed, session>>

Fail(f) ==
    /\ failed' = failed + 1
    /\ f \notin settled /\ settled' = settled \cup {f}
    /\ UNCHANGED <<files, untold, told, saved, session>>

Tell ==
    /\ untold # <<>> /\ told' = told \cup {Head(untold)}
    /\ untold' = Tail(untold)
    /\ UNCHANGED <<settled, files, saved, failed, session>>

Delete(n) ==
    /\ files[n] # NoFile /\ files' = [files EXCEPT ![n] = NoFile]
    /\ UNCHANGED <<settled, untold, told, saved, failed, session>>

Restart ==
    /\ session < MaxSessions /\ session' = session + 1
    /\ settled' = {} /\ untold' = <<>> /\ told' = {} /\ saved' = 0 /\ failed' = 0
    /\ UNCHANGED files

Next ==
    \/ \E f \in Transfers : Fail(f) \/ (\E n \in Names : Save(f, n))
    \/ Tell \/ (\E n \in Names : Delete(n)) \/ Restart

Spec == Init /\ [][Next]_vars
=============================================================================
