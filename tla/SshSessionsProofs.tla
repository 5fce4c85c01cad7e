------------------------- MODULE SshSessionsProofs -------------------------
(***************************************************************************)
(* The safety of SshSessions for any commands, any number of disconnect    *)
(* calls and of physical connections, on either head: SshInv is            *)
(* inductive, and what the runs check follows from it.                     *)
(***************************************************************************)
EXTENDS SshSessions, TLAPS

USE SshAssumption

\* Any step of a command.
AnyOp(o) ==
    \/ Start(o) \/ OpStep(o) \/ TermExits(o) \/ Cancel(o) \/ ForwardClose(o)

\* No command touches the tables, the connections, the supervisor or the
\* disconnect calls.
LEMMA OpsFrame == ASSUME NEW o \in Ops, AnyOp(o) PROVE OpFrame
  BY DEF AnyOp, OpStep, Get, Terminal, Monitor, Transfer, Forward,
         Start, GetTable, GetEntry, GetPhase, GetProbe, GetProbed, GetAgain, TermOpen,
         TermOpened, TermListed, TermEnds, TermRemoved, TermClose, TermExits,
         MonitorSpawns, MonitorListed, SampleOpens, SampleOpened, TransferOpen,
         TransferOpened, TransferDone, TransferStops, TransferLoses, TransferFails,
         TransferLost, TransferJudged, TransferRetries, Cancel,
         ForwardAsks, ForwardAnswered, ForwardClose

\* The supervisor keeps the types.
LEMMA TypeOfSupervisor ==
    ASSUME TypeOK, Supervisor PROVE TypeOK'
<1> USE DEF TypeOK
<1>1. CASE SupSleep
  BY <1>1 DEF SupSleep, SupFrame, physical, xfervars, termvars, monvars, Open, Close, SupStates,
              Conns
<1>2. CASE SupProbe
  BY <1>2 DEF SupProbe, SupFrame, physical, xfervars, termvars, monvars, Open, Close, SupStates,
              Conns
<1>3. CASE SupClosed
  BY <1>3 DEF SupClosed, SupFrame, physical, xfervars, termvars, monvars, Open, Close,
              SupStates, Conns
<1>4. CASE SupTop
  BY <1>4 DEF SupTop, SupFrame, physical, xfervars, termvars, monvars, Open, Close, SupStates,
              Conns
<1>5. CASE SupConnects
  BY <1>5 DEF SupConnects, SupFrame, physical, xfervars, termvars, monvars, Open, Close,
              SupStates, Conns
<1>6. CASE SupFails
  BY <1>6 DEF SupFails, SupFrame, physical, xfervars, termvars, monvars, Open, Close, SupStates,
              Conns
<1>7. CASE SupRetries
  BY <1>7 DEF SupRetries, SupFrame, physical, xfervars, termvars, monvars, Open, Close,
              SupStates, Conns
<1>8. CASE SupMade
  BY <1>8 DEF SupMade, SupFrame, physical, xfervars, termvars, monvars, Open, Close, SupStates,
              Conns
<1>9. CASE SupInstall
  BY <1>9 DEF SupInstall, SupFrame, physical, xfervars, termvars, monvars, Open, Close,
              SupStates, Conns
<1>10. CASE SupMark
  BY <1>10 DEF SupMark, SupFrame, physical, xfervars, termvars, monvars, Open, Close, SupStates,
               Conns
<1>11. CASE SupDropped
  BY <1>11 DEF SupDropped, SupFrame, physical, xfervars, termvars, monvars, Open, Close,
               SupStates, Conns
<1>12. QED BY <1>1, <1>2, <1>3, <1>4, <1>5, <1>6, <1>7, <1>8, <1>9, <1>10, <1>11 DEF Supervisor

\* So does ssh_disconnect.
LEMMA TypeOfDisconnect ==
    ASSUME TypeOK, NEW d \in Disconnectors, Disconnect(d) \/ DiscStep(d) PROVE TypeOK'
<1> USE DEF TypeOK
<1>1. CASE Disconnect(d)
  BY <1>1 DEF Disconnect, LockFreed, DiscFrame, tables, xfervars, termvars, monvars, Close,
              DiscStates, Conns
<1>2. CASE DiscEntry(d)
  BY <1>2 DEF DiscEntry, DiscFrame, tables, xfervars, termvars, monvars, Close, DiscStates, Conns
<1>3. CASE DiscTable(d)
  BY <1>3 DEF DiscTable, DiscFrame, tables, xfervars, termvars, monvars, Close, DiscStates, Conns
<1>4. CASE DiscClose(d)
  BY <1>4 DEF DiscClose, DiscFrame, tables, xfervars, termvars, monvars, Close, DiscStates, Conns
<1>5. QED BY <1>1, <1>2, <1>3, <1>4 DEF DiscStep

\* What every command leaves alone keeps its type.
LEMMA FrameTypes ==
    ASSUME TypeOK, OpFrame
    PROVE  /\ session' \in BOOLEAN /\ entry' \in BOOLEAN
           /\ phase' \in {"connected", "reconnecting", "stopped"}
           /\ handle' \in 0 .. MaxConns
           /\ conn' \in [Conns -> {"none", "open", "closed"}]
           /\ used' \in 0 .. MaxConns
           /\ sup' \in SupStates /\ made' \in 0 .. MaxConns /\ abort' \in BOOLEAN
           /\ disc' \in [Disconnectors -> DiscStates]
  BY DEF TypeOK, OpFrame, tables, physical, supvars

\* So do the commands.
LEMMA TypeOfOps == ASSUME TypeOK, NEW o \in Ops, AnyOp(o) PROVE TypeOK'
<1>0. OpFrame
  BY OpsFrame
<1>f. /\ session' \in BOOLEAN /\ entry' \in BOOLEAN
      /\ phase' \in {"connected", "reconnecting", "stopped"}
      /\ handle' \in 0 .. MaxConns
      /\ conn' \in [Conns -> {"none", "open", "closed"}]
      /\ used' \in 0 .. MaxConns
      /\ sup' \in SupStates /\ made' \in 0 .. MaxConns /\ abort' \in BOOLEAN
      /\ disc' \in [Disconnectors -> DiscStates]
  BY <1>0, FrameTypes
<1> DEFINE Own == /\ lock \in Ops \union {NoOne}
                  /\ op \in [Ops -> OpStates] /\ chan \in [Ops -> 0 .. MaxConns]
                  /\ cancelled \subseteq Ops /\ fallback \subseteq Ops
                  /\ terms \subseteq Ops /\ closing \subseteq Ops
                  /\ sampler \subseteq Ops /\ monitor \in Ops \union {NoOne}
                  /\ route \in Ops \union {NoOne}
<1>g. Own /\ handle \in 0 .. MaxConns
  BY DEF TypeOK
<1> SUFFICES Own'
  BY <1>f DEF TypeOK
<1>1. CASE Start(o)
  BY <1>1, <1>g DEF Start, NoChange, Goes, xfervars, termvars, monvars, OpStates, Getting
<1>2. CASE GetTable(o)
  BY <1>2, <1>g DEF GetTable, Refused, NoChange, Goes, xfervars, termvars, monvars, OpStates,
                    Getting
<1>3. CASE GetEntry(o)
  BY <1>3, <1>g DEF GetEntry, NoChange, Goes, xfervars, termvars, monvars, OpStates, Getting
<1>4. CASE GetPhase(o)
  BY <1>4, <1>g DEF GetPhase, Refused, NoChange, Goes, xfervars, termvars, monvars, OpStates,
                    Getting
<1>5. CASE GetProbe(o)
  BY <1>5, <1>g DEF GetProbe, NoChange, Goes, xfervars, termvars, monvars, OpStates, Getting
<1>6. CASE GetProbed(o)
  BY <1>6, <1>g DEF GetProbed, NoChange, Goes, xfervars, termvars, monvars, OpStates, Getting
<1>7. CASE GetAgain(o)
  BY <1>7, <1>g DEF GetAgain, NoChange, Goes, xfervars, termvars, monvars, OpStates, Getting
<1>8. CASE TermOpen(o)
  BY <1>8, <1>g DEF TermOpen, NoChange, Goes, xfervars, termvars, monvars, OpStates, Getting
<1>9. CASE TermOpened(o)
  BY <1>9, <1>g DEF TermOpened, NoChange, Goes, xfervars, termvars, monvars, OpStates, Getting
<1>10. CASE TermListed(o)
  BY <1>10, <1>g DEF TermListed, NoChange, Goes, xfervars, termvars, monvars, OpStates, Getting
<1>11. CASE TermEnds(o)
  BY <1>11, <1>g DEF TermEnds, NoChange, Goes, xfervars, termvars, monvars, OpStates, Getting
<1>12. CASE TermRemoved(o)
  BY <1>12, <1>g DEF TermRemoved, NoChange, Goes, xfervars, termvars, monvars, OpStates, Getting
<1>13. CASE TermClose(o)
  BY <1>13, <1>g DEF TermClose, NoChange, Goes, xfervars, termvars, monvars, OpStates, Getting
<1>14. CASE TermExits(o)
  BY <1>14, <1>g DEF TermExits, NoChange, Goes, xfervars, termvars, monvars, OpStates, Getting
<1>15. CASE MonitorSpawns(o)
  BY <1>15, <1>g DEF MonitorSpawns, NoChange, Goes, xfervars, termvars, monvars, OpStates, Getting
<1>16. CASE MonitorListed(o)
  BY <1>16, <1>g DEF MonitorListed, LockFreed, NoChange, Goes, xfervars, termvars, monvars,
                     OpStates, Getting
<1>17. CASE SampleOpens(o)
  BY <1>17, <1>g DEF SampleOpens, NoChange, Goes, xfervars, termvars, monvars, OpStates, Getting
<1>18. CASE SampleOpened(o)
  BY <1>18, <1>g DEF SampleOpened, NoChange, Goes, xfervars, termvars, monvars, OpStates, Getting
<1>19. CASE TransferOpen(o)
  BY <1>19, <1>g DEF TransferOpen, NoChange, Goes, xfervars, termvars, monvars, OpStates, Getting
<1>20. CASE TransferOpened(o)
  BY <1>20, <1>g DEF TransferOpened, NoChange, Goes, xfervars, termvars, monvars, OpStates,
                     Getting
<1>21. CASE TransferDone(o)
  BY <1>21, <1>g DEF TransferDone, NoChange, Goes, xfervars, termvars, monvars, OpStates, Getting
<1>22. CASE TransferStops(o)
  BY <1>22, <1>g DEF TransferStops, NoChange, Goes, xfervars, termvars, monvars, OpStates, Getting
<1>23. CASE TransferLoses(o)
  BY <1>23, <1>g DEF TransferLoses, NoChange, Goes, xfervars, termvars, monvars, OpStates, Getting
<1>24. CASE TransferFails(o)
  BY <1>24, <1>g DEF TransferFails, NoChange, Goes, xfervars, termvars, monvars, OpStates, Getting
<1>25. CASE TransferLost(o)
  BY <1>25, <1>g DEF TransferLost, NoChange, Goes, xfervars, termvars, monvars, OpStates, Getting
<1>26. CASE TransferJudged(o)
  BY <1>26, <1>g DEF TransferJudged, NoChange, Goes, xfervars, termvars, monvars, OpStates,
                     Getting
<1>27. CASE TransferRetries(o)
  BY <1>27, <1>g DEF TransferRetries, NoChange, Goes, xfervars, termvars, monvars, OpStates,
                     Getting
<1>28. CASE Cancel(o)
  BY <1>28, <1>g DEF Cancel, NoChange, Goes, xfervars, termvars, monvars, OpStates, Getting
<1>29. CASE ForwardAsks(o)
  BY <1>29, <1>g DEF ForwardAsks, NoChange, Goes, xfervars, termvars, monvars, OpStates, Getting
<1>30. CASE ForwardAnswered(o)
  BY <1>30, <1>g DEF ForwardAnswered, NoChange, Goes, xfervars, termvars, monvars, OpStates,
                     Getting
<1>31. CASE ForwardClose(o)
  BY <1>31, <1>g DEF ForwardClose, NoChange, Goes, xfervars, termvars, monvars, OpStates, Getting
<1>32. QED
  BY <1>1, <1>2, <1>3, <1>4, <1>5, <1>6, <1>7, <1>8, <1>9, <1>10, <1>11, <1>12, <1>13,
     <1>14, <1>15, <1>16, <1>17, <1>18, <1>19, <1>20, <1>21, <1>22, <1>23, <1>24, <1>25, <1>26,
     <1>27, <1>28, <1>29, <1>30, <1>31
  DEF AnyOp, OpStep, Get, Terminal, Monitor, Transfer, Forward

LEMMA TypeInductive == TypeOK /\ [Next]_vars => TypeOK'
<1> SUFFICES ASSUME TypeOK, [Next]_vars PROVE TypeOK'
  OBVIOUS
<1>1. CASE \E head \in Heads : Connect(head)
  BY <1>1 DEF Connect, TypeOK, SupStates, xfervars, termvars, monvars, Conns
<1>2. CASE HandleDropped
  BY <1>2 DEF HandleDropped, TypeOK, tables, supvars, xfervars, termvars, monvars, Close, Conns
<1>3. CASE MonitorStop
  BY <1>3 DEF MonitorStop, LockFreed, TypeOK, OpFrame, tables, physical, supvars, xfervars,
              termvars
<1>4. ASSUME NEW c \in Conns, Lose(c) PROVE TypeOK'
  BY <1>4 DEF Lose, TypeOK, tables, supvars, xfervars, termvars, monvars, Close, Conns
<1>5. CASE UNCHANGED vars
  BY <1>5 DEF TypeOK, vars
<1>6. QED
  BY <1>1, <1>2, <1>3, <1>4, <1>5, TypeOfSupervisor, TypeOfDisconnect, TypeOfOps DEF Next, AnyOp

\* The numbering of the connections, and the closed one being replaced.
LEMMA NumberedBySupervisor ==
    ASSUME TypeOK, ConnectionsAreNumbered, Supervisor PROVE ConnectionsAreNumbered'
<1> USE DEF TypeOK, ConnectionsAreNumbered, Open, Dialling, Conns
<1>1. CASE SupSleep
  BY <1>1 DEF SupSleep, SupFrame, physical, Close
<1>2. CASE SupProbe
  BY <1>2 DEF SupProbe, SupFrame, physical, Close
<1>3. CASE SupClosed
  BY <1>3 DEF SupClosed, SupFrame, physical, Close
<1>4. CASE SupTop
  BY <1>4 DEF SupTop, SupFrame, physical, Close
<1>5. CASE SupConnects
  BY <1>5 DEF SupConnects, SupFrame, physical, Close
<1>6. CASE SupFails
  BY <1>6 DEF SupFails, SupFrame, physical, Close
<1>7. CASE SupRetries
  BY <1>7 DEF SupRetries, SupFrame, physical, Close
<1>8. CASE SupMade
  BY <1>8 DEF SupMade, SupFrame, physical, Close
<1>9. CASE SupInstall
  BY <1>9 DEF SupInstall, SupFrame, physical, Close
<1>10. CASE SupMark
  BY <1>10 DEF SupMark, SupFrame, physical, Close
<1>11. CASE SupDropped
  BY <1>11 DEF SupDropped, SupFrame, physical, Close
<1>12. QED
  BY <1>1, <1>2, <1>3, <1>4, <1>5, <1>6, <1>7, <1>8, <1>9, <1>10, <1>11 DEF Supervisor

LEMMA NumberedInductive ==
    TypeOK /\ ConnectionsAreNumbered /\ [Next]_vars => ConnectionsAreNumbered'
<1> SUFFICES ASSUME TypeOK, ConnectionsAreNumbered, [Next]_vars PROVE ConnectionsAreNumbered'
  OBVIOUS
<1> USE DEF TypeOK, ConnectionsAreNumbered, Open, Dialling, Conns
<1>1. CASE \E head \in Heads : Connect(head)
  BY <1>1 DEF Connect
<1>2. CASE HandleDropped
  BY <1>2 DEF HandleDropped, supvars, Close
<1>3. CASE MonitorStop
  BY <1>3 DEF MonitorStop, OpFrame, physical, supvars
<1>4. ASSUME NEW c \in Conns, Lose(c) PROVE ConnectionsAreNumbered'
  BY <1>4 DEF Lose, supvars, Close
<1>5. ASSUME NEW d \in Disconnectors, Disconnect(d) \/ DiscStep(d) PROVE ConnectionsAreNumbered'
  BY <1>5 DEF Disconnect, DiscStep, DiscEntry, DiscTable, DiscClose, DiscFrame, Close
<1>6. ASSUME NEW o \in Ops, AnyOp(o) PROVE ConnectionsAreNumbered'
  <2>1. OpFrame
    BY <1>6, OpsFrame
  <2>2. QED
    BY <2>1 DEF OpFrame, physical, supvars
<1>7. CASE UNCHANGED vars
  BY <1>7 DEF vars
<1>8. QED
  BY <1>1, <1>2, <1>3, <1>4, <1>5, <1>6, <1>7, NumberedBySupervisor DEF Next, AnyOp

\* The phase beside an entry.
LEMMA PhaseInductive ==
    TypeOK /\ ConnectionsAreNumbered /\ PhaseIsTrue /\ [Next]_vars => PhaseIsTrue'
<1> SUFFICES ASSUME TypeOK, ConnectionsAreNumbered, PhaseIsTrue, [Next]_vars PROVE PhaseIsTrue'
  OBVIOUS
<1> USE DEF PhaseIsTrue
<1>1. CASE \E head \in Heads : Connect(head)
  BY <1>1 DEF Connect, TypeOK, supvars, ConnectionsAreNumbered
<1>2. CASE HandleDropped
  BY <1>2 DEF HandleDropped, tables, supvars
<1>3. CASE MonitorStop
  BY <1>3 DEF MonitorStop, OpFrame, tables, physical, supvars
<1>4. ASSUME NEW c \in Conns, Lose(c) PROVE PhaseIsTrue'
  BY <1>4 DEF Lose, tables, supvars
<1>5. ASSUME NEW d \in Disconnectors, Disconnect(d) \/ DiscStep(d) PROVE PhaseIsTrue'
  BY <1>5 DEF Disconnect, DiscStep, DiscEntry, DiscTable, DiscClose, DiscFrame, tables, TypeOK
<1>6. ASSUME NEW o \in Ops, AnyOp(o) PROVE PhaseIsTrue'
  <2>1. OpFrame
    BY <1>6, OpsFrame
  <2>2. QED
    BY <2>1 DEF OpFrame, tables, physical, supvars
<1>7. CASE UNCHANGED vars
  BY <1>7 DEF vars
<1>8. CASE Supervisor
  <2>1. CASE SupSleep
    BY <1>8, <2>1 DEF SupSleep, SupFrame, physical, TypeOK
  <2>2. CASE SupProbe
    BY <1>8, <2>2 DEF SupProbe, SupFrame, physical, TypeOK
  <2>3. CASE SupClosed
    BY <1>8, <2>3 DEF SupClosed, SupFrame, physical, TypeOK
  <2>4. CASE SupTop
    BY <1>8, <2>4 DEF SupTop, SupFrame, physical, TypeOK
  <2>5. CASE SupConnects
    BY <1>8, <2>5 DEF SupConnects, SupFrame, physical, TypeOK
  <2>6. CASE SupFails
    BY <1>8, <2>6 DEF SupFails, SupFrame, physical, TypeOK
  <2>7. CASE SupRetries
    BY <1>8, <2>7 DEF SupRetries, SupFrame, physical, TypeOK
  <2>8. CASE SupMade
    BY <1>8, <2>8 DEF SupMade, SupFrame, physical, TypeOK
  <2>9. CASE SupInstall
    BY <1>8, <2>9 DEF SupInstall, SupFrame, physical, TypeOK
  <2>10. CASE SupMark
    BY <1>8, <2>10 DEF SupMark, SupFrame, physical, TypeOK
  <2>11. CASE SupDropped
    BY <1>8, <2>11 DEF SupDropped, SupFrame, physical, TypeOK
  <2>12. QED
    BY <1>8, <2>1, <2>2, <2>3, <2>4, <2>5, <2>6, <2>7, <2>8, <2>9, <2>10, <2>11 DEF Supervisor
<1>9. QED
  BY <1>1, <1>2, <1>3, <1>4, <1>5, <1>6, <1>7, <1>8 DEF Next, AnyOp

\* A listed terminal keeps its owner.
LEMMA ServedByOps ==
    ASSUME TypeOK, TermsAreServed, NEW o \in Ops, AnyOp(o) PROVE TermsAreServed'
<1> USE DEF TypeOK, TermsAreServed
<1>1. CASE Start(o)
  BY <1>1 DEF Start, NoChange, Goes, xfervars, termvars, monvars
<1>2. CASE GetTable(o)
  BY <1>2 DEF GetTable, Refused, NoChange, Goes, xfervars, termvars, monvars
<1>3. CASE GetEntry(o)
  BY <1>3 DEF GetEntry, NoChange, Goes, xfervars, termvars, monvars
<1>4. CASE GetPhase(o)
  BY <1>4 DEF GetPhase, Refused, NoChange, Goes, xfervars, termvars, monvars
<1>5. CASE GetProbe(o)
  BY <1>5 DEF GetProbe, NoChange, Goes, xfervars, termvars, monvars
<1>6. CASE GetProbed(o)
  BY <1>6 DEF GetProbed, NoChange, Goes, xfervars, termvars, monvars
<1>7. CASE GetAgain(o)
  BY <1>7 DEF GetAgain, NoChange, Goes, xfervars, termvars, monvars
<1>8. CASE TermOpen(o)
  BY <1>8 DEF TermOpen, NoChange, Goes, xfervars, termvars, monvars
<1>9. CASE TermOpened(o)
  BY <1>9 DEF TermOpened, NoChange, Goes, xfervars, termvars, monvars
<1>10. CASE TermListed(o)
  BY <1>10 DEF TermListed, NoChange, Goes, xfervars, termvars, monvars
<1>11. CASE TermEnds(o)
  BY <1>11 DEF TermEnds, NoChange, Goes, xfervars, termvars, monvars
<1>12. CASE TermRemoved(o)
  BY <1>12 DEF TermRemoved, NoChange, Goes, xfervars, termvars, monvars
<1>13. CASE TermClose(o)
  BY <1>13 DEF TermClose, NoChange, Goes, xfervars, termvars, monvars
<1>14. CASE TermExits(o)
  BY <1>14 DEF TermExits, NoChange, Goes, xfervars, termvars, monvars
<1>15. CASE MonitorSpawns(o)
  BY <1>15 DEF MonitorSpawns, NoChange, Goes, xfervars, termvars, monvars
<1>16. CASE MonitorListed(o)
  BY <1>16 DEF MonitorListed, LockFreed, NoChange, Goes, xfervars, termvars, monvars
<1>17. CASE SampleOpens(o)
  BY <1>17 DEF SampleOpens, NoChange, Goes, xfervars, termvars, monvars
<1>18. CASE SampleOpened(o)
  BY <1>18 DEF SampleOpened, NoChange, Goes, xfervars, termvars, monvars
<1>19. CASE TransferOpen(o)
  BY <1>19 DEF TransferOpen, NoChange, Goes, xfervars, termvars, monvars
<1>20. CASE TransferOpened(o)
  BY <1>20 DEF TransferOpened, NoChange, Goes, xfervars, termvars, monvars
<1>21. CASE TransferDone(o)
  BY <1>21 DEF TransferDone, NoChange, Goes, xfervars, termvars, monvars
<1>22. CASE TransferStops(o)
  BY <1>22 DEF TransferStops, NoChange, Goes, xfervars, termvars, monvars
<1>23. CASE TransferLoses(o)
  BY <1>23 DEF TransferLoses, NoChange, Goes, xfervars, termvars, monvars
<1>24. CASE TransferFails(o)
  BY <1>24 DEF TransferFails, NoChange, Goes, xfervars, termvars, monvars
<1>25. CASE TransferLost(o)
  BY <1>25 DEF TransferLost, NoChange, Goes, xfervars, termvars, monvars
<1>26. CASE TransferJudged(o)
  BY <1>26 DEF TransferJudged, NoChange, Goes, xfervars, termvars, monvars
<1>27. CASE TransferRetries(o)
  BY <1>27 DEF TransferRetries, NoChange, Goes, xfervars, termvars, monvars
<1>28. CASE Cancel(o)
  BY <1>28 DEF Cancel, NoChange, Goes, xfervars, termvars, monvars
<1>29. CASE ForwardAsks(o)
  BY <1>29 DEF ForwardAsks, NoChange, Goes, xfervars, termvars, monvars
<1>30. CASE ForwardAnswered(o)
  BY <1>30 DEF ForwardAnswered, NoChange, Goes, xfervars, termvars, monvars
<1>31. CASE ForwardClose(o)
  BY <1>31 DEF ForwardClose, NoChange, Goes, xfervars, termvars, monvars
<1>32. QED
  BY <1>1, <1>2, <1>3, <1>4, <1>5, <1>6, <1>7, <1>8, <1>9, <1>10, <1>11, <1>12, <1>13,
     <1>14, <1>15, <1>16, <1>17, <1>18, <1>19, <1>20, <1>21, <1>22, <1>23, <1>24, <1>25, <1>26,
     <1>27, <1>28, <1>29, <1>30, <1>31
  DEF AnyOp, OpStep, Get, Terminal, Monitor, Transfer, Forward

LEMMA ServedInductive == TypeOK /\ TermsAreServed /\ [Next]_vars => TermsAreServed'
<1> SUFFICES ASSUME TypeOK, TermsAreServed, [Next]_vars PROVE TermsAreServed'
  OBVIOUS
<1> USE DEF TermsAreServed
<1>1. CASE (\E head \in Heads : Connect(head)) \/ HandleDropped \/ \E c \in Conns : Lose(c)
  BY <1>1 DEF Connect, HandleDropped, Lose, xfervars, termvars, monvars
<1>2. CASE Supervisor
  BY <1>2 DEF Supervisor, SupFrame, xfervars, termvars, monvars,
              SupSleep, SupProbe, SupClosed, SupTop, SupConnects, SupFails, SupRetries,
              SupMade, SupInstall, SupMark, SupDropped
<1>3. CASE MonitorStop
  BY <1>3 DEF MonitorStop, termvars
<1>4. ASSUME NEW d \in Disconnectors, Disconnect(d) \/ DiscStep(d) PROVE TermsAreServed'
  BY <1>4 DEF Disconnect, DiscStep, DiscEntry, DiscTable, DiscClose, DiscFrame, xfervars,
              termvars, monvars
<1>5. CASE UNCHANGED vars
  BY <1>5 DEF vars
<1>6. QED
  BY <1>1, <1>2, <1>3, <1>4, <1>5, ServedByOps DEF Next, AnyOp

\* A running sampler stays within reach.
LEMMA ListedByOps ==
    ASSUME TypeOK, SamplersAreListed, NEW o \in Ops, AnyOp(o) PROVE SamplersAreListed'
<1> USE DEF TypeOK, SamplersAreListed
<1>1. CASE Start(o)
  BY <1>1 DEF Start, NoChange, Goes, xfervars, termvars, monvars
<1>2. CASE GetTable(o)
  BY <1>2 DEF GetTable, Refused, NoChange, Goes, xfervars, termvars, monvars
<1>3. CASE GetEntry(o)
  BY <1>3 DEF GetEntry, NoChange, Goes, xfervars, termvars, monvars
<1>4. CASE GetPhase(o)
  BY <1>4 DEF GetPhase, Refused, NoChange, Goes, xfervars, termvars, monvars
<1>5. CASE GetProbe(o)
  BY <1>5 DEF GetProbe, NoChange, Goes, xfervars, termvars, monvars
<1>6. CASE GetProbed(o)
  BY <1>6 DEF GetProbed, NoChange, Goes, xfervars, termvars, monvars
<1>7. CASE GetAgain(o)
  BY <1>7 DEF GetAgain, NoChange, Goes, xfervars, termvars, monvars
<1>8. CASE TermOpen(o)
  BY <1>8 DEF TermOpen, NoChange, Goes, xfervars, termvars, monvars
<1>9. CASE TermOpened(o)
  BY <1>9 DEF TermOpened, NoChange, Goes, xfervars, termvars, monvars
<1>10. CASE TermListed(o)
  BY <1>10 DEF TermListed, NoChange, Goes, xfervars, termvars, monvars
<1>11. CASE TermEnds(o)
  BY <1>11 DEF TermEnds, NoChange, Goes, xfervars, termvars, monvars
<1>12. CASE TermRemoved(o)
  BY <1>12 DEF TermRemoved, NoChange, Goes, xfervars, termvars, monvars
<1>13. CASE TermClose(o)
  BY <1>13 DEF TermClose, NoChange, Goes, xfervars, termvars, monvars
<1>14. CASE TermExits(o)
  BY <1>14 DEF TermExits, NoChange, Goes, xfervars, termvars, monvars
<1>15. CASE MonitorSpawns(o)
  BY <1>15 DEF MonitorSpawns, NoChange, Goes, xfervars, termvars, monvars
<1>16. CASE MonitorListed(o)
  BY <1>16 DEF MonitorListed, LockFreed, NoChange, Goes, xfervars, termvars, monvars
<1>17. CASE SampleOpens(o)
  BY <1>17 DEF SampleOpens, NoChange, Goes, xfervars, termvars, monvars
<1>18. CASE SampleOpened(o)
  BY <1>18 DEF SampleOpened, NoChange, Goes, xfervars, termvars, monvars
<1>19. CASE TransferOpen(o)
  BY <1>19 DEF TransferOpen, NoChange, Goes, xfervars, termvars, monvars
<1>20. CASE TransferOpened(o)
  BY <1>20 DEF TransferOpened, NoChange, Goes, xfervars, termvars, monvars
<1>21. CASE TransferDone(o)
  BY <1>21 DEF TransferDone, NoChange, Goes, xfervars, termvars, monvars
<1>22. CASE TransferStops(o)
  BY <1>22 DEF TransferStops, NoChange, Goes, xfervars, termvars, monvars
<1>23. CASE TransferLoses(o)
  BY <1>23 DEF TransferLoses, NoChange, Goes, xfervars, termvars, monvars
<1>24. CASE TransferFails(o)
  BY <1>24 DEF TransferFails, NoChange, Goes, xfervars, termvars, monvars
<1>25. CASE TransferLost(o)
  BY <1>25 DEF TransferLost, NoChange, Goes, xfervars, termvars, monvars
<1>26. CASE TransferJudged(o)
  BY <1>26 DEF TransferJudged, NoChange, Goes, xfervars, termvars, monvars
<1>27. CASE TransferRetries(o)
  BY <1>27 DEF TransferRetries, NoChange, Goes, xfervars, termvars, monvars
<1>28. CASE Cancel(o)
  BY <1>28 DEF Cancel, NoChange, Goes, xfervars, termvars, monvars
<1>29. CASE ForwardAsks(o)
  BY <1>29 DEF ForwardAsks, NoChange, Goes, xfervars, termvars, monvars
<1>30. CASE ForwardAnswered(o)
  BY <1>30 DEF ForwardAnswered, NoChange, Goes, xfervars, termvars, monvars
<1>31. CASE ForwardClose(o)
  BY <1>31 DEF ForwardClose, NoChange, Goes, xfervars, termvars, monvars
<1>32. QED
  BY <1>1, <1>2, <1>3, <1>4, <1>5, <1>6, <1>7, <1>8, <1>9, <1>10, <1>11, <1>12, <1>13,
     <1>14, <1>15, <1>16, <1>17, <1>18, <1>19, <1>20, <1>21, <1>22, <1>23, <1>24, <1>25, <1>26,
     <1>27, <1>28, <1>29, <1>30, <1>31
  DEF AnyOp, OpStep, Get, Terminal, Monitor, Transfer, Forward

LEMMA ListedInductive == TypeOK /\ SamplersAreListed /\ [Next]_vars => SamplersAreListed'
<1> SUFFICES ASSUME TypeOK, SamplersAreListed, [Next]_vars PROVE SamplersAreListed'
  OBVIOUS
<1> USE DEF SamplersAreListed
<1>1. CASE (\E head \in Heads : Connect(head)) \/ HandleDropped \/ \E c \in Conns : Lose(c)
  BY <1>1 DEF Connect, HandleDropped, Lose, xfervars, termvars, monvars
<1>2. CASE Supervisor
  BY <1>2 DEF Supervisor, SupFrame, xfervars, termvars, monvars,
              SupSleep, SupProbe, SupClosed, SupTop, SupConnects, SupFails, SupRetries,
              SupMade, SupInstall, SupMark, SupDropped
<1>3. CASE MonitorStop
  BY <1>3 DEF MonitorStop, termvars
<1>4. ASSUME NEW d \in Disconnectors, Disconnect(d) \/ DiscStep(d) PROVE SamplersAreListed'
  BY <1>4 DEF Disconnect, DiscStep, DiscEntry, DiscTable, DiscClose, DiscFrame, xfervars,
              termvars, monvars
<1>5. CASE UNCHANGED vars
  BY <1>5 DEF vars
<1>6. QED
  BY <1>1, <1>2, <1>3, <1>4, <1>5, ListedByOps DEF Next, AnyOp

LEMMA SshInit == Init => SshInv
<1> SUFFICES ASSUME Init PROVE SshInv
  OBVIOUS
<1> USE DEF Init
<1>0. /\ session \in BOOLEAN /\ entry \in BOOLEAN /\ abort \in BOOLEAN
      /\ phase \in {"connected", "reconnecting", "stopped"}
  OBVIOUS
<1>1. handle \in 0 .. MaxConns /\ used \in 0 .. MaxConns /\ made \in 0 .. MaxConns
  OBVIOUS
<1>s. sup \in SupStates /\ lock \in Ops \union {NoOne}
  BY DEF SupStates
<1>2. /\ conn \in [Conns -> {"none", "open", "closed"}]
      /\ disc \in [Disconnectors -> DiscStates]
  BY DEF DiscStates
<1>3. op \in [Ops -> OpStates] /\ chan \in [Ops -> 0 .. MaxConns]
  BY DEF OpStates
<1>4. TypeOK
  BY <1>0, <1>1, <1>s, <1>2, <1>3 DEF TypeOK
<1>5. ConnectionsAreNumbered
  BY DEF ConnectionsAreNumbered, Open, Dialling
<1>6. PhaseIsTrue /\ TermsAreServed /\ SamplersAreListed
  BY DEF PhaseIsTrue, TermsAreServed, SamplersAreListed
<1>7. QED
  BY <1>4, <1>5, <1>6 DEF SshInv

\* What the supervisor, the tables and the commands keep between them, for any
\* interleaving of a loss, a reconnection and a disconnection.
THEOREM SessionInvariant == Spec => []SshInv
<1>1. SshInv /\ [Next]_vars => SshInv'
  BY TypeInductive, NumberedInductive, PhaseInductive, ServedInductive, ListedInductive DEF SshInv
<1>2. QED
  BY SshInit, <1>1, PTL DEF Spec

\* A session never has two physical connections open: while the supervisor
\* holds a new one, the one it replaces is closed (conn.rs:525-566).
THEOREM NeverTwoConnections == Spec => []OneConnection
<1>1. SshInv => OneConnection
  BY DEF SshInv, TypeOK, ConnectionsAreNumbered, OneConnection, Open, Dialling, Conns
<1>2. QED
  BY <1>1, SessionInvariant, PTL

\* No entry of Session::terms is left without an owner that serves it or is
\* about to remove it (term.rs:182-306).
THEOREM ListedTerminalsServed == Spec => []TermsAreServed
<1>1. SshInv => TermsAreServed
  BY DEF SshInv
<1>2. QED
  BY <1>1, SessionInvariant, PTL

\* No sampler runs beyond the reach of monitor_stop (monitor.rs:368-429).
THEOREM SamplersWithinReach == Spec => []SamplersAreListed
<1>1. SshInv => SamplersAreListed
  BY DEF SshInv
<1>2. QED
  BY <1>1, SessionInvariant, PTL
=============================================================================
