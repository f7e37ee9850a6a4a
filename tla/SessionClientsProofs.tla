------------------------ MODULE SessionClientsProofs ------------------------
(***************************************************************************)
(* That the session's record of its clients keeps its types, that the      *)
(* session has the size its clients allow, that a goodbye is the last      *)
(* thing a client is sent, and that no client paints a diff over another   *)
(* frame than the one the diff was computed from, for any clients, any     *)
(* sizes and any bounds.                                                   *)
(*                                                                         *)
(* Each handler is a chain of the same pieces, so the pieces have the      *)
(* lemmas and a handler's proof names the ones it is made of.              *)
(*                                                                         *)
(* A goodbye could be followed by something only if its client could come  *)
(* back.  What makes FarewellIsLast inductive is that it cannot: a client  *)
(* still to be attached has its request at the head of its messages and    *)
(* has been sent nothing.                                                  *)
(*                                                                         *)
(* Whether the next diff applies depends on what the session believes of a *)
(* client, so that belief is what has to be invariant: either the session  *)
(* knows that it knows nothing, and owes the client a full repaint, or the *)
(* client shows what is believed once it has read what is on its way.      *)
(***************************************************************************)
EXTENDS SessionClients, WellFoundedInduction, SequenceTheorems, TLAPS

-----------------------------------------------------------------------------
(* The smallest of some numbers, and so the size that is negotiated.       *)

LEMMA LeastIsLeast ==
  ASSUME NEW S \in SUBSET Nat, S # {}
  PROVE  Least(S) \in S /\ \A m \in S : Least(S) <= m
<1>1. \E n \in S : \A m \in S : ~ (<<m, n>> \in OpToRel(<, Nat))
  BY NatLessThanWellFounded, WFMin
<1>2. PICK n \in S : \A m \in S : ~ (<<m, n>> \in OpToRel(<, Nat))
  BY <1>1
<1>3. \A m \in S : ~ (m < n)
  BY <1>2, Zenon DEF OpToRel
<1>4. \A m \in S : n <= m
  BY <1>3
<1> QED  BY <1>4 DEF Least

LEMMA NegotiatedFits ==
  ASSUME NEW cs \in SUBSET Client, NEW rec \in [Client -> Size], cs # {}
  PROVE  /\ Negotiated(cs, rec) \in Nat \X Nat
         /\ \A c \in cs : Fits(Negotiated(cs, rec), rec[c])
         /\ \A i \in {1, 2} : \E c \in cs : rec[c][i] = Negotiated(cs, rec)[i]
<1> DEFINE extent(i) == {rec[c][i] : c \in cs}
<1>1. \A c \in cs : rec[c] \in Nat \X Nat
  BY ClientsAssumption
<1>2. ASSUME NEW i \in {1, 2}
      PROVE  /\ Least(extent(i)) \in extent(i)
             /\ \A m \in extent(i) : Least(extent(i)) <= m
             /\ extent(i) \in SUBSET Nat
  <2>1. extent(i) \in SUBSET Nat /\ extent(i) # {}
    BY <1>1
  <2> QED  BY <2>1, LeastIsLeast
<1>3. Negotiated(cs, rec) = <<Least(extent(1)), Least(extent(2))>>
  BY DEF Negotiated
<1> HIDE DEF extent
<1>4. Negotiated(cs, rec) \in Nat \X Nat
  BY <1>2, <1>3
<1>5. \A c \in cs : rec[c][1] \in extent(1) /\ rec[c][2] \in extent(2)
  BY DEF extent
<1>6. \A c \in cs : Fits(Negotiated(cs, rec), rec[c])
  BY <1>2, <1>3, <1>5 DEF Fits
<1>7. \A i \in {1, 2} : \E c \in cs : rec[c][i] = Negotiated(cs, rec)[i]
  <2>1. \E c \in cs : rec[c][1] = Least(extent(1))
    BY <1>2 DEF extent
  <2>2. \E c \in cs : rec[c][2] = Least(extent(2))
    BY <1>2 DEF extent
  <2> QED  BY <1>3, <2>1, <2>2
<1> QED  BY <1>4, <1>6, <1>7

LEMMA NegotiatedType ==
  ASSUME NEW cs \in SUBSET Client, NEW rec \in [Client -> Size], size \in Nat \X Nat
  PROVE  Negotiated(cs, rec) \in Nat \X Nat
<1>1. CASE cs = {}
  BY <1>1 DEF Negotiated
<1>2. CASE cs # {}
  BY <1>2, NegotiatedFits
<1> QED  BY <1>1, <1>2

-----------------------------------------------------------------------------
(* The types of what the pieces leave.                                     *)

LEMMA LeaderType ==
  ASSUME NEW cs, NEW opt, RefreshNesting(cs, opt)
  PROVE  leader' \in {"Alt", "CtrlAlt"}
  BY DEF RefreshNesting

LEMMA ResizeTypes ==
  ASSUME NEW s \in Nat \X Nat, NEW cs, NEW owed, ResizeTo(s, cs, owed)
  PROVE  size' \in Nat \X Nat /\ repaint' \in SUBSET cs /\ dirty' \in BOOLEAN
  BY DEF ResizeTo

LEMMA DropTypes ==
  ASSUME SessionType, NEW S, Drop(S)
  PROVE  SessionType'
<1>1. size' \in Nat \X Nat /\ repaint' \in SUBSET clients' /\ dirty' \in BOOLEAN
  BY NegotiatedType, ResizeTypes DEF Drop, SessionType
<1>2. recorded' \in [Client -> Size] /\ front' \in [Client -> Frame \cup {Unknown}]
  BY ClientsAssumption DEF Drop, Forget, SessionType
<1> QED  BY <1>1, <1>2, LeaderType DEF Drop, SessionType

LEMMA FarewellTypes ==
  ASSUME WireType, NEW S, NEW farewell \in {"detached", "switch", "exit"}, Farewell(S, farewell)
  PROVE  down' \in [Client -> Seq(Delivery)]
  BY DEF WireType, Farewell, Delivery

LEMMA HearsTypes ==
  ASSUME WireType, NEW c \in Client, NEW kind, Hears(c, kind)
  PROVE  /\ up' \in [Client -> Seq(Message)]
         /\ Head(up[c]) \in Message /\ Head(up[c]).kind = kind
         /\ kind \in {"attach", "resize"} => Head(up[c]).size \in Size
<1>1. Head(up[c]) \in Message /\ Tail(up[c]) \in Seq(Message)
  BY HeadTailProperties DEF WireType, Hears
<1>2. Head(up[c]).kind = kind
  BY DEF Hears
<1> QED  BY <1>1, <1>2 DEF WireType, Hears, Message

LEMMA MessagesTyped ==
  ASSUME NEW c \in Client, TerminalType
  PROVE  /\ [kind |-> "attach", size |-> term[c]] \in Message
         /\ [kind |-> "resize", size |-> term[c]] \in Message
         /\ \A kind \in {"detach", "quit", "gone"} : [kind |-> kind] \in Message
  BY DEF TerminalType, Message

LEMMA PaintedTyped ==
  ASSUME SessionType, NEW c \in Client, NEW now \in Frame
  PROVE  Painted(c, now) \in Seq(Delivery)
<1>1. [kind |-> "full", to |-> now] \in Delivery
  BY DEF Delivery
<1>2. [kind |-> "diff", from |-> front[c], to |-> now] \in Delivery
  BY DEF Delivery, SessionType
<1> QED  BY <1>1, <1>2 DEF Painted

-----------------------------------------------------------------------------
(* Types.                                                                  *)

LEMMA InitTypes == Init => TypeOK
<1> SUFFICES ASSUME Init PROVE TypeOK
  OBVIOUS
<1>1. SessionType /\ LoopType
  BY ClientsAssumption DEF Init, SessionType, LoopType, Content
<1>2. WireType /\ TerminalType
  BY DEF Init, WireType, TerminalType
<1> QED  BY <1>1, <1>2 DEF TypeOK

(* What the session records, one handler at a time.                        *)
LEMMA ReceiveTypes ==
  ASSUME TypeOK, NEW c \in Client, Receive(c)
  PROVE  TypeOK'
<1> USE DEF TypeOK
<1>1. CASE ReceiveAttach(c)
  <2> DEFINE rec == [recorded EXCEPT ![c] = Head(up[c]).size]
             cs == clients \cup {c}
  <2>1. Hears(c, "attach") /\ rec \in [Client -> Size] /\ cs \in SUBSET Client
    BY <1>1, HearsTypes DEF ReceiveAttach, SessionType
  <2>2. ResizeTo(Negotiated(cs, rec), cs, cs) /\ recorded' = rec /\ clients' = cs
    BY <1>1 DEF ReceiveAttach
  <2>3. Negotiated(cs, rec) \in Nat \X Nat
    BY <2>1, NegotiatedType DEF SessionType
  <2>4. size' \in Nat \X Nat /\ repaint' \in SUBSET clients' /\ dirty' \in BOOLEAN
    BY <2>2, <2>3, ResizeTypes
  <2>5. leader' \in {"Alt", "CtrlAlt"}
    BY <1>1, LeaderType DEF ReceiveAttach
  <2>6. SessionType'
    BY <1>1, <2>1, <2>2, <2>4, <2>5 DEF ReceiveAttach, SessionType
  <2>7. WireType'
    BY <1>1, <2>1, HearsTypes DEF ReceiveAttach, WireType
  <2> QED  BY <1>1, <2>6, <2>7 DEF ReceiveAttach, terminals, TerminalType, LoopType
<1>2. CASE ReceiveResize(c)
  <2> DEFINE s == Head(up[c]).size
             rec == [recorded EXCEPT ![c] = s]
             owed == IF recorded[c] # s THEN repaint \cup {c} ELSE repaint
  <2>1. Hears(c, "resize") /\ s \in Size /\ rec \in [Client -> Size]
    BY <1>2, HearsTypes DEF ReceiveResize, SessionType
  <2>2. /\ recorded' \in [Client -> Size]
        /\ size' \in Nat \X Nat /\ repaint' \in SUBSET clients /\ dirty' \in BOOLEAN
    <3>1. CASE c \in clients
      <4>1. ResizeTo(Negotiated(clients, rec), clients, owed) /\ recorded' = rec
        BY <1>2, <3>1 DEF ReceiveResize
      <4>2. Negotiated(clients, rec) \in Nat \X Nat
        BY <2>1, NegotiatedType DEF SessionType
      <4> QED  BY <2>1, <4>1, <4>2, ResizeTypes
    <3>2. CASE c \notin clients
      <4>1. ResizeTo(s, clients, repaint) /\ recorded' = recorded
        BY <1>2, <3>2 DEF ReceiveResize
      <4>2. s \in Nat \X Nat
        BY <2>1, ClientsAssumption
      <4> QED  BY <4>1, <4>2, ResizeTypes DEF SessionType
    <3> QED  BY <3>1, <3>2
  <2>3. SessionType'
    BY <1>2, <2>2 DEF ReceiveResize, SessionType
  <2>4. WireType'
    BY <1>2, <2>1, HearsTypes DEF ReceiveResize, WireType
  <2> QED  BY <1>2, <2>3, <2>4 DEF ReceiveResize, terminals, TerminalType, LoopType
<1>3. CASE ReceiveDetach(c)
  <2>1. SessionType'
    BY <1>3, DropTypes DEF ReceiveDetach
  <2>2. WireType'
    BY <1>3, HearsTypes, FarewellTypes DEF ReceiveDetach, WireType
  <2> QED  BY <1>3, <2>1, <2>2 DEF ReceiveDetach, terminals, TerminalType, LoopType
<1>4. CASE ReceiveQuit(c)
  <2>1. SessionType'
    BY <1>4, DropTypes DEF ReceiveQuit
  <2>2. WireType'
    BY <1>4, HearsTypes, FarewellTypes DEF ReceiveQuit, WireType
  <2> QED  BY <1>4, <2>1, <2>2 DEF ReceiveQuit, terminals, TerminalType, LoopType
<1>5. CASE ReceiveGone(c)
  <2>1. SessionType'
    <3>1. CASE c \in clients
      BY <1>5, <3>1, DropTypes DEF ReceiveGone
    <3>2. CASE c \notin clients
      BY <1>5, <3>2 DEF ReceiveGone, SessionType, session
    <3> QED  BY <3>1, <3>2
  <2>2. WireType'
    BY <1>5, HearsTypes DEF ReceiveGone, WireType
  <2> QED  BY <1>5, <2>1, <2>2 DEF ReceiveGone, terminals, TerminalType, LoopType
<1> QED  BY <1>1, <1>2, <1>3, <1>4, <1>5 DEF Receive

LEMMA DetachTypes ==
  ASSUME TypeOK, NEW S, DetachClient(S)
  PROVE  TypeOK'
<1> USE DEF TypeOK
<1>1. SessionType'
  BY DropTypes DEF DetachClient
<1>2. WireType'
  BY FarewellTypes DEF DetachClient, WireType
<1> QED  BY <1>1, <1>2 DEF DetachClient, terminals, TerminalType, LoopType

LEMMA RenderTypes ==
  ASSUME TypeOK, Render
  PROVE  TypeOK'
<1> DEFINE now == <<size, content>>
<1> USE DEF TypeOK
<1>1. now \in Frame
  BY DEF SessionType, LoopType, Frame
<1>2. \A c \in Client : Painted(c, now) \in Seq(Delivery)
  BY <1>1, PaintedTyped
<1>3. down' \in [Client -> Seq(Delivery)]
  <2> HIDE DEF now
  <2>1. ASSUME NEW c \in Client PROVE down[c] \o Painted(c, now) \in Seq(Delivery)
    BY <1>2, ConcatProperties DEF WireType
  <2> QED  BY <2>1 DEF Render, WireType, now
<1>4. SessionType'
  BY <1>1 DEF Render, SessionType
<1> QED  BY <1>3, <1>4 DEF Render, terminals, WireType, TerminalType, LoopType

(* The rest of what the session does.                                      *)
LEMMA SessionTypes ==
  ASSUME TypeOK, Session
  PROVE  TypeOK'
<1> USE DEF TypeOK
<1>1. ASSUME NEW c \in Client, Receive(c) PROVE TypeOK'
  BY <1>1, ReceiveTypes
<1>2. ASSUME NEW S, DetachClient(S) PROVE TypeOK'
  BY <1>2, DetachTypes
<1>3. CASE SwitchClient
  <2>1. SessionType'
    BY <1>3, DropTypes DEF SwitchClient
  <2>2. WireType'
    BY <1>3, FarewellTypes DEF SwitchClient, WireType
  <2> QED  BY <1>3, <2>1, <2>2 DEF SwitchClient, terminals, TerminalType, LoopType
<1>4. CASE RefreshClient
  BY <1>4, ClientsAssumption
  DEF RefreshClient, SessionType, wires, WireType, terminals, TerminalType, LoopType
<1>5. ASSUME NEW value \in Settings \ {option}, SetNestedKeys(value) PROVE TypeOK'
  <2>1. leader' \in {"Alt", "CtrlAlt"}
    BY <1>5, LeaderType DEF SetNestedKeys
  <2> QED
    BY <1>5, <2>1, ClientsAssumption
    DEF SetNestedKeys, SessionType, wires, WireType, terminals, TerminalType, LoopType
<1>6. CASE Change
  BY <1>6, ClientsAssumption
  DEF Change, SessionType, wires, WireType, terminals, TerminalType, LoopType, Content
<1>7. CASE Render
  BY <1>7, RenderTypes
<1>8. CASE Stop
  BY <1>8, ClientsAssumption
  DEF Stop, session, SessionType, wires, WireType, terminals, TerminalType, LoopType
<1>9. CASE Goodbye
  <2>1. SessionType'
    BY <1>9, DropTypes DEF Goodbye
  <2>2. WireType'
    BY <1>9, FarewellTypes DEF Goodbye, WireType
  <2> QED  BY <1>9, <2>1, <2>2 DEF Goodbye, terminals, TerminalType, LoopType
<1> QED
  BY <1>1, <1>2, <1>3, <1>4, <1>5, <1>6, <1>7, <1>8, <1>9 DEF Session, Receive

(* A terminal and its connection leave the session's record alone.         *)
LEMMA LeaveTypes ==
  ASSUME TypeOK, NEW c \in Client, Leave(c)
  PROVE  TypeOK'
<1> USE DEF TypeOK
<1>1. WireType'
  <2>1. Append(up[c], [kind |-> "gone"]) \in Seq(Message)
    BY MessagesTyped, AppendProperties DEF WireType
  <2> QED  BY <2>1 DEF Leave, WireType
<1> QED  BY <1>1 DEF Leave, session, SessionType, TerminalType, LoopType

LEMMA ReadTypes ==
  ASSUME TypeOK, NEW c \in Client, ReadFrame(c)
  PROVE  TypeOK'
<1> DEFINE m == Head(down[c])
<1> USE DEF TypeOK
<1>1. m \in Delivery /\ Tail(down[c]) \in Seq(Delivery)
  BY HeadTailProperties DEF ReadFrame, WireType
<1>2. m.to \in Frame
  BY <1>1 DEF ReadFrame, Delivery
<1>3. screen' \in [Client -> Frame \cup {Unknown, Unheard}]
  BY <1>2 DEF ReadFrame, ShownAfter, TerminalType
<1>4. WireType'
  BY <1>1 DEF ReadFrame, WireType
<1> QED  BY <1>3, <1>4 DEF ReadFrame, session, SessionType, TerminalType, LoopType

LEMMA CutOffTypes ==
  ASSUME TypeOK, NEW c \in Client, CutOff(c)
  PROVE  TypeOK'
<1> USE DEF TypeOK
<1>1. ASSUME NEW k \in 0 .. Len(down[c])
      PROVE  Append(SubSeq(down[c], 1, k), [kind |-> "eof"]) \in Seq(Delivery)
  <2>1. SubSeq(down[c], 1, k) \in Seq(Delivery)
    BY SubSeqProperties DEF WireType
  <2>2. [kind |-> "eof"] \in Delivery
    BY DEF Delivery
  <2> QED  BY <2>1, <2>2, AppendProperties
<1>2. WireType'
  BY <1>1 DEF CutOff, WireType
<1> QED  BY <1>2 DEF CutOff, session, SessionType, terminals, TerminalType, LoopType

LEMMA TerminalTypes ==
  ASSUME TypeOK, NEW c \in Client, Terminal(c)
  PROVE  TypeOK'
<1> USE DEF TypeOK
<1>1. CASE Connect(c)
  <2>1. [kind |-> "attach", size |-> term[c]] \in Message
    BY MessagesTyped
  <2>2. <<[kind |-> "attach", size |-> term[c]]>> \in Seq(Message)
    BY <2>1
  <2>3. WireType'
    BY <1>1, <2>2 DEF Connect, WireType
  <2> QED  BY <1>1, <2>3 DEF Connect, session, SessionType, TerminalType, LoopType
<1>2. ASSUME NEW s \in Size, TerminalResizes(c, s) PROVE TypeOK'
  <2>1. turns' \in 0 .. MaxTurns
    BY <1>2, ClientsAssumption DEF TerminalResizes, LoopType
  <2>2. TerminalType'
    BY <1>2 DEF TerminalResizes, TerminalType
  <2> QED
    BY <1>2, <2>1, <2>2 DEF TerminalResizes, session, SessionType, wires, WireType, LoopType
<1>3. CASE ReportResize(c)
  <2>1. Append(up[c], [kind |-> "resize", size |-> term[c]]) \in Seq(Message)
    BY MessagesTyped, AppendProperties DEF WireType
  <2>2. WireType'
    BY <1>3, <2>1 DEF ReportResize, WireType
  <2> QED  BY <1>3, <2>2 DEF ReportResize, session, SessionType, TerminalType, LoopType
<1>4. CASE ReadFrame(c)
  BY <1>4, ReadTypes
<1>5. CASE ReadFarewell(c) \/ ClientDies(c)
  BY <1>5, LeaveTypes DEF ReadFarewell, ClientDies
<1>6. CASE CutOff(c)
  BY <1>6, CutOffTypes
<1>7. ASSUME NEW word \in LastWords, SayLastWords(c, word) PROVE TypeOK'
  <2>1. [kind |-> word] \in Message /\ [kind |-> "gone"] \in Message
    BY ClientsAssumption, MessagesTyped
  <2>2. <<[kind |-> word], [kind |-> "gone"]>> \in Seq(Message)
    BY <2>1
  <2>3. up[c] \o <<[kind |-> word], [kind |-> "gone"]>> \in Seq(Message)
    BY <2>2, ConcatProperties DEF WireType
  <2>4. WireType'
    BY <1>7, <2>3 DEF SayLastWords, WireType
  <2> QED  BY <1>7, <2>4 DEF SayLastWords, session, SessionType, TerminalType, LoopType
<1> QED  BY <1>1, <1>2, <1>3, <1>4, <1>5, <1>6, <1>7 DEF Terminal

LEMMA StepTypes ==
  ASSUME TypeOK, [Next]_vars
  PROVE  TypeOK'
<1>1. CASE Next
  BY <1>1, SessionTypes, TerminalTypes DEF Next
<1>2. CASE UNCHANGED vars
  BY <1>2 DEF vars, session, wires, terminals, TypeOK, SessionType, WireType, TerminalType, LoopType
<1> QED  BY <1>1, <1>2

(* The session, its connections and the terminals keep to their types, and *)
(* the session owes a repaint only to clients it has.                      *)
THEOREM TypeCorrect == Spec => []TypeOK
  BY InitTypes, StepTypes, PTL DEF Spec

-----------------------------------------------------------------------------
(* The size.  A handler that negotiates leaves a size that fits; one that  *)
(* does not leaves alone what the size depends on.                         *)

LEMMA NegotiatedSizeFits ==
  ASSUME NEW cs \in SUBSET Client, NEW rec \in [Client -> Size],
         clients' = cs, \A c \in cs : recorded'[c] = rec[c], size' = Negotiated(cs, rec)
  PROVE  SizeFits'
<1> SUFFICES ASSUME cs # {}
             PROVE  /\ \A c \in cs : Fits(size', recorded'[c])
                    /\ \E c \in cs : recorded'[c][1] = size'[1]
                    /\ \E c \in cs : recorded'[c][2] = size'[2]
  BY DEF SizeFits, Fits
<1>1. /\ \A c \in cs : Fits(Negotiated(cs, rec), rec[c])
      /\ \A i \in {1, 2} : \E c \in cs : rec[c][i] = Negotiated(cs, rec)[i]
  BY NegotiatedFits
<1> QED  BY <1>1 DEF Fits

LEMMA DropSizeFits == ASSUME SessionType, NEW S, Drop(S) PROVE SizeFits'
<1>1. \A c \in clients \ S : recorded'[c] = recorded[c]
  BY DEF Drop, Forget, SessionType
<1>2. clients' = clients \ S /\ size' = Negotiated(clients \ S, recorded)
  BY DEF Drop, ResizeTo
<1> QED  BY <1>1, <1>2, NegotiatedSizeFits DEF SessionType

LEMMA SizeKept ==
  ASSUME SizeFits, UNCHANGED <<clients, recorded, size>>
  PROVE  SizeFits'
  BY DEF SizeFits, Fits

LEMMA SizeSteps ==
  ASSUME TypeOK, Next, clients' # clients \/ (SizeFits /\ ~ LateResize)
  PROVE  SizeFits'
<1> USE DEF TypeOK
<1>1. ASSUME NEW c \in Client, ReceiveAttach(c) PROVE SizeFits'
  <2> DEFINE rec == [recorded EXCEPT ![c] = Head(up[c]).size]
             cs == clients \cup {c}
  <2>1. cs \in SUBSET Client /\ rec \in [Client -> Size]
    BY <1>1, HearsTypes DEF ReceiveAttach, SessionType
  <2>2. clients' = cs /\ recorded' = rec /\ size' = Negotiated(cs, rec)
    BY <1>1 DEF ReceiveAttach, ResizeTo
  <2> QED  BY <2>1, <2>2, NegotiatedSizeFits
<1>2. ASSUME NEW c \in Client, ReceiveResize(c) PROVE SizeFits'
  <2> DEFINE rec == [recorded EXCEPT ![c] = Head(up[c]).size]
  <2>1. clients' = clients /\ c \in clients
    BY <1>2 DEF ReceiveResize, LateResize
  <2>2. rec \in [Client -> Size]
    BY <1>2, HearsTypes DEF ReceiveResize, SessionType
  <2>3. recorded' = rec /\ size' = Negotiated(clients, rec)
    BY <1>2, <2>1 DEF ReceiveResize, ResizeTo
  <2> QED  BY <2>1, <2>2, <2>3, NegotiatedSizeFits DEF SessionType
<1>3. ASSUME NEW c \in Client, ReceiveDetach(c) \/ ReceiveQuit(c) PROVE SizeFits'
  BY <1>3, DropSizeFits DEF ReceiveDetach, ReceiveQuit
<1>4. ASSUME NEW c \in Client, ReceiveGone(c) PROVE SizeFits'
  <2>1. CASE c \in clients
    BY <1>4, <2>1, DropSizeFits DEF ReceiveGone
  <2>2. CASE c \notin clients
    BY <1>4, <2>2, SizeKept DEF ReceiveGone, session
  <2> QED  BY <2>1, <2>2
<1>5. ASSUME NEW S, DetachClient(S) PROVE SizeFits'
  BY <1>5, DropSizeFits DEF DetachClient
<1>6. CASE SwitchClient \/ Goodbye
  BY <1>6, DropSizeFits DEF SwitchClient, Goodbye
<1>7. CASE RefreshClient \/ Change \/ Render \/ Stop
  BY <1>7, SizeKept DEF RefreshClient, Change, Render, Stop, session
<1>8. ASSUME NEW value, SetNestedKeys(value) PROVE SizeFits'
  BY <1>8, SizeKept DEF SetNestedKeys
<1>9. ASSUME NEW c \in Client, Terminal(c) PROVE SizeFits'
  <2>1. UNCHANGED session
    BY <1>9 DEF Terminal, Connect, ReportResize, ReadFrame, ReadFarewell, ClientDies, Leave,
                CutOff, TerminalResizes, SayLastWords
  <2> QED  BY <2>1, SizeKept DEF session
<1> QED
  BY <1>1, <1>2, <1>3, <1>4, <1>5, <1>6, <1>7, <1>8, <1>9 DEF Next, Session

(* Whoever comes or goes, the session has the size of the smallest         *)
(* terminals watching it, and keeps to it but for a resize that comes too  *)
(* late.                                                                   *)
THEOREM SizeAlwaysFollows == Spec => SizeFollows
<1>1. TypeOK /\ [Next]_vars
        => [clients' # clients \/ (SizeFits /\ ~ LateResize) => SizeFits']_vars
  BY SizeSteps
<1>2. Spec => []TypeOK
  BY TypeCorrect
<1> QED  BY <1>1, <1>2, PTL DEF Spec, SizeFollows

-----------------------------------------------------------------------------
(* What a client is sent when the screen is composed.                      *)

(* Those who are attached are sent at most a frame, after all the rest.    *)
SentFrame(c) == Painted(c, <<size, content>>)[1]

LEMMA PaintedShape ==
  ASSUME NEW c
  PROVE  \/ Painted(c, <<size, content>>) = <<>> /\ front[c] = <<size, content>>
         \/ /\ Painted(c, <<size, content>>) = <<SentFrame(c)>>
            /\ SentFrame(c).kind \in {"full", "diff"} /\ SentFrame(c).to = <<size, content>>
            /\ SentFrame(c).kind = "diff" => c \notin repaint /\ SentFrame(c).from = front[c]
<1> DEFINE now == <<size, content>>
<1>1. CASE c \in repaint
  BY <1>1 DEF Painted, SentFrame
<1>2. CASE c \notin repaint /\ front[c] = now
  BY <1>2 DEF Painted
<1>3. CASE c \notin repaint /\ front[c] # now
  BY <1>3 DEF Painted, SentFrame
<1> QED  BY <1>1, <1>2, <1>3

LEMMA FramesSent ==
  ASSUME TypeOK, Render, NEW c \in clients, Painted(c, <<size, content>>) = <<SentFrame(c)>>
  PROVE  /\ Len(down[c]) \in Nat /\ Len(down'[c]) = Len(down[c]) + 1
         /\ \A i \in 1 .. Len(down[c]) : down'[c][i] = down[c][i]
         /\ down'[c][Len(down[c]) + 1] = SentFrame(c)
<1>1. c \in Client /\ <<size, content>> \in Frame
  BY DEF TypeOK, SessionType, LoopType, Frame
<1>2. down[c] \in Seq(Delivery) /\ <<SentFrame(c)>> \in Seq(Delivery)
  BY <1>1, PaintedTyped DEF TypeOK, WireType
<1>3. down'[c] = down[c] \o <<SentFrame(c)>>
  BY <1>1 DEF Render
<1>4. /\ Len(down[c]) \in Nat /\ Len(down'[c]) = Len(down[c]) + Len(<<SentFrame(c)>>)
      /\ \A i \in 1 .. Len(down[c]) + Len(<<SentFrame(c)>>) :
           down'[c][i] = IF i <= Len(down[c]) THEN down[c][i] ELSE <<SentFrame(c)>>[i - Len(down[c])]
  BY <1>2, <1>3, ConcatProperties
<1>5. Len(<<SentFrame(c)>>) = 1 /\ <<SentFrame(c)>>[1] = SentFrame(c)
  OBVIOUS
<1>6. down'[c][Len(down[c]) + 1] = <<SentFrame(c)>>[Len(down[c]) + 1 - Len(down[c])]
  BY <1>4, <1>5
<1> QED  BY <1>4, <1>5, <1>6

LEMMA NothingSent ==
  ASSUME TypeOK, Render, NEW c \in Client,
         c \notin clients \/ Painted(c, <<size, content>>) = <<>>
  PROVE  down'[c] = down[c]
<1>1. CASE c \notin clients
  BY <1>1 DEF Render
<1>2. CASE c \in clients
  <2>1. down'[c] = down[c] \o <<>>
    BY <1>2 DEF Render
  <2> QED  BY <2>1, ConcatEmptySeq DEF TypeOK, WireType
<1> QED  BY <1>1, <1>2

-----------------------------------------------------------------------------
(* A goodbye is the last thing a client is sent.                           *)

Farewells == {"detached", "switch", "exit"}

(* The clients whose request to attach the session has not taken yet.      *)
Attaching == {c \in Client : \E i \in 1 .. Len(up[c]) : up[c][i].kind = "attach"}

(* A connection not made yet carries nothing.                              *)
Fresh ==
  \A c \in Client : phase[c] = "out" => c \notin clients /\ up[c] = <<>> /\ down[c] = <<>>

AttachFirst ==
  \A c \in Client : \A i \in 1 .. Len(up[c]) : up[c][i].kind = "attach" => i = 1

(* A client still attaching may find only that the server has gone.        *)
Waiting ==
  \A c \in Attaching :
    c \notin clients /\ \A i \in 1 .. Len(down[c]) : down[c][i].kind = "eof"

(* Connections are closed only when the session has ended.                 *)
Streaming ==
  exit \in {"Running", "Quit"} =>
    \A c \in Client : \A i \in 1 .. Len(down[c]) : down[c][i].kind # "eof"

Connected == Fresh /\ AttachFirst /\ Waiting /\ Streaming /\ FarewellIsLast

-----------------------------------------------------------------------------
(* The messages of the clients: one is taken, or some that do not ask to   *)
(* attach are added.                                                       *)

Unasked == AttachFirst' /\ Attaching' \subseteq Attaching

LEMMA Untouched == ASSUME AttachFirst, up' = up PROVE Unasked
  BY DEF Unasked, AttachFirst, Attaching

LEMMA Taken ==
  ASSUME WireType, AttachFirst, NEW c \in Client, NEW kind, Hears(c, kind)
  PROVE  /\ Unasked /\ c \notin Attaching'
         /\ kind = "attach" => c \in Attaching
         /\ \A d \in Client : up[d] = <<>> => up'[d] = <<>>
<1>1. /\ \A d \in Client : d # c => up'[d] = up[d]
      /\ up'[c] = Tail(up[c]) /\ up[c] # <<>> /\ Head(up[c]).kind = kind
  BY DEF Hears, WireType
<1>2. /\ Len(up'[c]) = Len(up[c]) - 1 /\ Len(up[c]) \in Nat /\ Len(up[c]) >= 1
      /\ \A i \in 1 .. Len(up'[c]) : up'[c][i] = up[c][i + 1]
  BY <1>1, HeadTailProperties DEF WireType
<1>3. \A i \in 1 .. Len(up'[c]) : up'[c][i].kind # "attach"
  BY <1>2 DEF AttachFirst
<1>4. Unasked /\ c \notin Attaching'
  BY <1>1, <1>3 DEF Unasked, AttachFirst, Attaching
<1>5. kind = "attach" => c \in Attaching
  <2>1. up[c][1].kind = kind
    BY <1>1 DEF WireType
  <2> QED  BY <1>2, <2>1 DEF Attaching
<1> QED  BY <1>1, <1>4, <1>5

LEMMA Said ==
  ASSUME WireType, AttachFirst, NEW c \in Client, NEW said \in Seq(Message),
         \A i \in 1 .. Len(said) : said[i].kind # "attach",
         up' = [up EXCEPT ![c] = @ \o said]
  PROVE  Unasked
<1>1. /\ \A d \in Client : d # c => up'[d] = up[d]
      /\ up'[c] = up[c] \o said
  BY DEF WireType
<1>2. /\ Len(up[c]) \in Nat /\ Len(said) \in Nat
      /\ Len(up'[c]) = Len(up[c]) + Len(said)
      /\ \A i \in 1 .. Len(up'[c]) :
           up'[c][i] = IF i <= Len(up[c]) THEN up[c][i] ELSE said[i - Len(up[c])]
  BY <1>1, ConcatProperties DEF WireType
<1>3. \A i \in 1 .. Len(up'[c]) :
        up'[c][i].kind = "attach" => i \in 1 .. Len(up[c]) /\ up'[c][i] = up[c][i]
  BY <1>2
<1>4. \A d \in Client : \A i \in 1 .. Len(up'[d]) :
        up'[d][i].kind = "attach" => i \in 1 .. Len(up[d]) /\ up[d][i].kind = "attach"
  BY <1>1, <1>3
<1>5. AttachFirst'
  BY <1>4 DEF AttachFirst
<1>6. Attaching' \subseteq Attaching
  BY <1>4 DEF Attaching
<1> QED  BY <1>5, <1>6 DEF Unasked

-----------------------------------------------------------------------------
(* What a client is sent: nothing new, a goodbye, a frame, less than       *)
(* before, or the end of the stream.                                       *)

(* Nobody comes, and nobody is sent anything.                              *)
LEMMA Quietly ==
  ASSUME TypeOK, Connected, Unasked, phase' = phase, down' = down, clients' \subseteq clients,
         exit' = exit \/ exit' \notin {"Running", "Quit"} \/ exit = "Running",
         \A c \in Client : up[c] = <<>> => up'[c] = <<>>
  PROVE  Connected'
<1> USE DEF Connected
<1>1. Fresh'
  BY DEF Fresh
<1>2. AttachFirst' /\ Waiting'
  BY DEF Unasked, Waiting
<1>3. Streaming' /\ FarewellIsLast'
  BY DEF Streaming, FarewellIsLast
<1> QED  BY <1>1, <1>2, <1>3

LEMMA GoodbyesLast ==
  ASSUME TypeOK, Connected, Unasked, NEW S, NEW farewell \in Farewells,
         exit \in {"Running", "Quit"}, phase' = phase,
         clients' = clients \ S, Farewell(S, farewell),
         \A c \in Client : up[c] = <<>> => up'[c] = <<>>
  PROVE  Connected'
<1> USE DEF Connected
<1>1. \A c \in Client : c \notin S \cap clients => down'[c] = down[c]
  BY DEF Farewell
<1>2. ASSUME NEW c \in S \cap clients
      PROVE  /\ c \in Client /\ Len(down[c]) \in Nat /\ Len(down'[c]) = Len(down[c]) + 1
             /\ \A i \in 1 .. Len(down[c]) : down'[c][i] = down[c][i]
             /\ down'[c][Len(down[c]) + 1].kind = farewell
  <2>1. c \in Client
    BY DEF TypeOK, SessionType
  <2>2. down[c] \in Seq(Delivery) /\ [kind |-> farewell] \in Delivery
    BY <2>1 DEF TypeOK, WireType, Delivery, Farewells
  <2>3. down'[c] = Append(down[c], [kind |-> farewell])
    BY <2>1 DEF Farewell
  <2>4. /\ Len(down[c]) \in Nat /\ Len(down'[c]) = Len(down[c]) + 1
        /\ \A i \in 1 .. Len(down[c]) : down'[c][i] = down[c][i]
        /\ down'[c][Len(down[c]) + 1] = [kind |-> farewell]
    BY <2>2, <2>3, AppendProperties
  <2> QED  BY <2>1, <2>4
<1>3. Fresh'
  BY <1>1 DEF Fresh
<1>4. AttachFirst' /\ Waiting'
  <2>1. \A c \in Attaching' : c \in Client /\ c \in Attaching
    BY DEF Unasked, Attaching
  <2> QED  BY <1>1, <2>1 DEF Unasked, Waiting
<1>5. Streaming'
  <2>1. ASSUME NEW c \in Client, NEW i \in 1 .. Len(down'[c]) PROVE down'[c][i].kind # "eof"
    <3>1. CASE c \in S \cap clients
      BY <1>2, <3>1 DEF Streaming, Farewells
    <3>2. CASE c \notin S \cap clients
      BY <1>1, <3>2 DEF Streaming
    <3> QED  BY <3>1, <3>2
  <2> QED  BY <2>1 DEF Streaming
<1>6. FarewellIsLast'
  <2>1. ASSUME NEW c \in Client, NEW i \in 1 .. Len(down'[c]), down'[c][i].kind \in Farewells
        PROVE  c \notin clients' /\ \A j \in i + 1 .. Len(down'[c]) : down'[c][j].kind = "eof"
    <3>1. CASE c \in S \cap clients
      <4>1. i = Len(down'[c])
        BY <1>2, <2>1, <3>1 DEF FarewellIsLast, Farewells
      <4> QED  BY <1>2, <3>1, <4>1
    <3>2. CASE c \notin S \cap clients
      BY <1>1, <2>1, <3>2 DEF FarewellIsLast, Farewells
    <3> QED  BY <3>1, <3>2
  <2> QED  BY <2>1 DEF FarewellIsLast, Farewells
<1> QED  BY <1>3, <1>4, <1>5, <1>6

(* Those who are attached are sent frames.                                 *)
LEMMA FramesHarmless ==
  ASSUME TypeOK, Connected, Render
  PROVE  Connected'
<1> USE DEF Connected
<1>1. /\ up' = up /\ phase' = phase /\ clients' = clients /\ exit' = exit /\ exit = "Running"
  BY DEF Render, terminals
<1>2. Unasked
  BY <1>1, Untouched
<1>3. \A c \in Client : c \notin clients => down'[c] = down[c]
  BY NothingSent
<1>4. ASSUME NEW c \in clients
      PROVE  /\ c \in Client
             /\ \A i \in 1 .. Len(down'[c]) :
                  \/ i \in 1 .. Len(down[c]) /\ down'[c][i] = down[c][i]
                  \/ down'[c][i].kind \in {"full", "diff"}
  <2>1. c \in Client
    BY DEF TypeOK, SessionType
  <2>2. CASE Painted(c, <<size, content>>) = <<>>
    BY <2>1, <2>2, NothingSent
  <2>3. CASE Painted(c, <<size, content>>) = <<SentFrame(c)>>
             /\ SentFrame(c).kind \in {"full", "diff"}
    BY <2>1, <2>3, FramesSent
  <2> QED  BY <2>2, <2>3, PaintedShape
<1>5. Fresh'
  BY <1>1, <1>3 DEF Fresh
<1>6. AttachFirst' /\ Waiting'
  <2>1. \A c \in Attaching' : c \in Client /\ c \in Attaching
    BY <1>2 DEF Unasked, Attaching
  <2> QED  BY <1>1, <1>2, <1>3, <2>1 DEF Unasked, Waiting
<1>7. Streaming'
  <2>1. ASSUME NEW c \in Client, NEW i \in 1 .. Len(down'[c]) PROVE down'[c][i].kind # "eof"
    BY <1>1, <1>3, <1>4 DEF Streaming
  <2> QED  BY <2>1 DEF Streaming
<1>8. FarewellIsLast'
  <2>1. ASSUME NEW c \in Client, NEW i \in 1 .. Len(down'[c]), down'[c][i].kind \in Farewells
        PROVE  c \notin clients' /\ \A j \in i + 1 .. Len(down'[c]) : down'[c][j].kind = "eof"
    <3>1. \A k \in 1 .. Len(down[c]) : down[c][k].kind \in Farewells => c \notin clients
      BY DEF FarewellIsLast, Farewells
    <3>2. c \notin clients
      BY <1>4, <2>1, <3>1 DEF Farewells
    <3> QED  BY <1>1, <1>3, <2>1, <3>2 DEF FarewellIsLast, Farewells
  <2> QED  BY <2>1 DEF FarewellIsLast, Farewells
<1> QED  BY <1>5, <1>6, <1>7, <1>8

-----------------------------------------------------------------------------
(* The handlers.                                                           *)

LEMMA Arrives ==
  ASSUME TypeOK, Connected, NEW c \in Client, ReceiveAttach(c)
  PROVE  Connected'
<1> USE DEF Connected
<1>1. /\ clients' = clients \cup {c} /\ down' = down /\ phase' = phase /\ exit' = exit
      /\ Hears(c, "attach") /\ exit = "Running" /\ up[c] # <<>>
  BY DEF ReceiveAttach, Hears, terminals
<1>2. /\ Unasked /\ c \notin Attaching' /\ c \in Attaching
      /\ \A d \in Client : up[d] = <<>> => up'[d] = <<>>
  BY <1>1, Taken DEF TypeOK
<1>3. Fresh'
  BY <1>1, <1>2 DEF Fresh
<1>4. AttachFirst' /\ Waiting'
  BY <1>1, <1>2 DEF Unasked, Waiting
<1>5. \A i \in 1 .. Len(down[c]) : FALSE
  BY <1>1, <1>2 DEF Waiting, Streaming
<1>6. Streaming' /\ FarewellIsLast'
  BY <1>1, <1>5 DEF Streaming, FarewellIsLast
<1> QED  BY <1>3, <1>4, <1>6

LEMMA SessionConnected ==
  ASSUME TypeOK, Connected, Session
  PROVE  Connected'
<1>1. ASSUME NEW c \in Client, ReceiveAttach(c) PROVE Connected'
  BY <1>1, Arrives
<1>2. ASSUME NEW c \in Client, ReceiveResize(c) PROVE Connected'
  <2>1. Unasked /\ \A d \in Client : up[d] = <<>> => up'[d] = <<>>
    BY <1>2, Taken DEF ReceiveResize, TypeOK, Connected
  <2> QED  BY <1>2, <2>1, Quietly DEF ReceiveResize, terminals
<1>3. ASSUME NEW c \in Client, ReceiveGone(c) PROVE Connected'
  <2>1. Unasked /\ \A d \in Client : up[d] = <<>> => up'[d] = <<>>
    BY <1>3, Taken DEF ReceiveGone, TypeOK, Connected
  <2>2. clients' \subseteq clients
    BY <1>3 DEF ReceiveGone, Drop, session
  <2> QED  BY <1>3, <2>1, <2>2, Quietly DEF ReceiveGone, terminals
<1>4. ASSUME NEW c \in Client, ReceiveDetach(c) \/ ReceiveQuit(c) PROVE Connected'
  <2>1. Unasked /\ \A d \in Client : up[d] = <<>> => up'[d] = <<>>
    BY <1>4, Taken DEF ReceiveDetach, ReceiveQuit, TypeOK, Connected
  <2>2. /\ exit = "Running" /\ phase' = phase /\ clients' = clients \ clients
        /\ \E farewell \in Farewells : Farewell(clients, farewell)
    BY <1>4 DEF ReceiveDetach, ReceiveQuit, Hears, Drop, terminals, Farewells
  <2> QED  BY <2>1, <2>2, GoodbyesLast
<1>5. ASSUME NEW S, DetachClient(S) PROVE Connected'
  <2>1. Unasked /\ up' = up
    BY <1>5, Untouched DEF DetachClient, Connected
  <2> QED  BY <1>5, <2>1, GoodbyesLast DEF DetachClient, Drop, terminals, Farewells
<1>6. CASE SwitchClient \/ Goodbye
  <2>1. Unasked /\ up' = up
    BY <1>6, Untouched DEF SwitchClient, Goodbye, Connected
  <2>2. /\ exit \in {"Running", "Quit"} /\ phase' = phase /\ clients' = clients \ clients
        /\ \E farewell \in Farewells : Farewell(clients, farewell)
    BY <1>6 DEF SwitchClient, Goodbye, Drop, terminals, Farewells
  <2> QED  BY <2>1, <2>2, GoodbyesLast
<1>7. CASE RefreshClient \/ Change \/ Stop \/ \E value \in Settings \ {option} : SetNestedKeys(value)
  <2>1. /\ up' = up /\ down' = down /\ phase' = phase /\ clients' = clients
        /\ exit' = exit \/ exit = "Running"
    BY <1>7 DEF RefreshClient, Change, Stop, SetNestedKeys, session, wires, terminals
  <2> QED  BY <2>1, Untouched, Quietly DEF Connected
<1>8. CASE Render
  BY <1>8, FramesHarmless
<1> QED  BY <1>1, <1>2, <1>3, <1>4, <1>5, <1>6, <1>7, <1>8 DEF Session

(* A client speaks: it says nothing about attaching that it has not said.  *)
LEMMA Speaks ==
  ASSUME TypeOK, Connected, NEW c \in Client, phase[c] # "out",
         Unasked, \A d \in Client : d # c => up'[d] = up[d] /\ phase'[d] = phase[d],
         phase'[c] # "out", UNCHANGED <<clients, exit>>,
         \A d \in Client : d # c => down'[d] = down[d],
         \A i \in 1 .. Len(down'[c]) :
           \/ down'[c][i].kind = "eof" /\ exit \notin {"Running", "Quit"}
           \/ /\ \E j \in 1 .. Len(down[c]) : down'[c][i] = down[c][j]
              /\ down'[c][i].kind \in Farewells =>
                   \A j \in i + 1 .. Len(down'[c]) : down'[c][j].kind = "eof"
  PROVE  Connected'
<1> USE DEF Connected
<1>1. Fresh'
  BY DEF Fresh
<1>2. AttachFirst' /\ Waiting'
  <2>1. \A d \in Attaching' : d \in Client /\ d \in Attaching
    BY DEF Unasked, Attaching
  <2>2. ASSUME NEW d \in Attaching'
        PROVE  d \notin clients /\ \A i \in 1 .. Len(down'[d]) : down'[d][i].kind = "eof"
    BY <2>1 DEF Waiting
  <2> QED  BY <2>2 DEF Unasked, Waiting
<1>3. Streaming'
  <2>1. ASSUME NEW d \in Client, NEW i \in 1 .. Len(down'[d]), exit \in {"Running", "Quit"}
        PROVE  down'[d][i].kind # "eof"
    BY <2>1 DEF Streaming
  <2> QED  BY <2>1 DEF Streaming
<1>4. FarewellIsLast'
  <2>1. ASSUME NEW d \in Client, NEW i \in 1 .. Len(down'[d]), down'[d][i].kind \in Farewells
        PROVE  d \notin clients /\ \A j \in i + 1 .. Len(down'[d]) : down'[d][j].kind = "eof"
    BY <2>1 DEF FarewellIsLast, Farewells
  <2> QED  BY <2>1 DEF FarewellIsLast, Farewells
<1> QED  BY <1>1, <1>2, <1>3, <1>4

LEMMA Leaves ==
  ASSUME TypeOK, Connected, NEW c \in Client, Live(c), Leave(c)
  PROVE  Connected'
<1>1. Unasked
  <2>1. CASE phase[c] = "leaving"
    BY <2>1, Untouched DEF Leave, Connected
  <2>2. CASE phase[c] # "leaving"
    <3> DEFINE said == <<[kind |-> "gone"]>>
    <3>1. said \in Seq(Message) /\ \A i \in 1 .. Len(said) : said[i].kind # "attach"
      BY DEF Message
    <3>2. up' = [up EXCEPT ![c] = @ \o said]
      BY <2>2, MessagesTyped, AppendIsConcat DEF Leave, TypeOK, WireType
    <3> HIDE DEF said
    <3> QED  BY <3>1, <3>2, Said DEF TypeOK, Connected
  <2> QED  BY <2>1, <2>2
<1>2. /\ down'[c] = <<>> /\ phase'[c] = "left" /\ phase[c] # "out"
      /\ \A d \in Client : d # c => down'[d] = down[d] /\ up'[d] = up[d] /\ phase'[d] = phase[d]
      /\ UNCHANGED <<clients, exit>>
  BY DEF Leave, Live, TypeOK, WireType, TerminalType, session
<1> QED  BY <1>1, <1>2, Speaks

LEMMA Reads ==
  ASSUME TypeOK, Connected, NEW c \in Client, ReadFrame(c)
  PROVE  Connected'
<1>1. Unasked
  BY Untouched DEF ReadFrame, Connected
<1>2. /\ phase' = phase /\ phase[c] # "out" /\ up' = up /\ UNCHANGED <<clients, exit>>
      /\ \A d \in Client : d # c => down'[d] = down[d]
      /\ down'[c] = Tail(down[c]) /\ down[c] # <<>>
  BY DEF ReadFrame, Live, TypeOK, WireType, TerminalType, session
<1>3. /\ Len(down[c]) \in Nat /\ Len(down'[c]) = Len(down[c]) - 1
      /\ \A i \in 1 .. Len(down'[c]) : i + 1 \in 1 .. Len(down[c]) /\ down'[c][i] = down[c][i + 1]
  BY <1>2, HeadTailProperties DEF TypeOK, WireType
<1>4. ASSUME NEW i \in 1 .. Len(down'[c]), down'[c][i].kind \in Farewells,
             NEW j \in i + 1 .. Len(down'[c])
      PROVE  down'[c][j].kind = "eof"
  <2>1. i + 1 \in 1 .. Len(down[c]) /\ down[c][i + 1].kind \in Farewells
    BY <1>3, <1>4
  <2>2. j \in 1 .. Len(down'[c]) /\ j + 1 \in (i + 1) + 1 .. Len(down[c])
    BY <1>3
  <2>3. down[c][j + 1].kind = "eof"
    BY <2>1, <2>2 DEF Connected, FarewellIsLast, Farewells
  <2> QED  BY <1>3, <2>2, <2>3
<1> QED  BY <1>1, <1>2, <1>3, <1>4, Speaks

LEMMA CutsOff ==
  ASSUME TypeOK, Connected, NEW c \in Client, CutOff(c)
  PROVE  Connected'
<1>1. Unasked
  BY Untouched DEF CutOff, Connected
<1>2. /\ phase' = phase /\ phase[c] # "out" /\ up' = up /\ UNCHANGED <<clients, exit>>
      /\ \A d \in Client : d # c => down'[d] = down[d]
      /\ exit \notin {"Running", "Quit"}
  BY DEF CutOff, Live, TypeOK, WireType, TerminalType, terminals, session
<1>3. PICK k \in 0 .. Len(down[c]) : down'[c] = Append(SubSeq(down[c], 1, k), [kind |-> "eof"])
  BY DEF CutOff, TypeOK, WireType
<1>4. /\ k \in Nat /\ Len(down[c]) \in Nat /\ k <= Len(down[c]) /\ Len(down'[c]) = k + 1
      /\ \A i \in 1 .. k : i \in 1 .. Len(down[c]) /\ down'[c][i] = down[c][i]
      /\ down'[c][k + 1] = [kind |-> "eof"]
  <2>1. down[c] \in Seq(Delivery) /\ [kind |-> "eof"] \in Delivery
    BY DEF TypeOK, WireType, Delivery
  <2>2. /\ SubSeq(down[c], 1, k) \in Seq(Delivery) /\ Len(SubSeq(down[c], 1, k)) = k
        /\ \A i \in 1 .. k : SubSeq(down[c], 1, k)[i] = down[c][i]
    BY <2>1, SubSeqProperties
  <2> QED  BY <1>3, <2>1, <2>2, AppendProperties
<1>5. ASSUME NEW i \in 1 .. Len(down'[c]), down'[c][i].kind # "eof"
      PROVE  i \in 1 .. k
  BY <1>4, <1>5
<1>6. ASSUME NEW i \in 1 .. k, down'[c][i].kind \in Farewells, NEW j \in i + 1 .. Len(down'[c])
      PROVE  down'[c][j].kind = "eof"
  <2>1. down[c][i].kind \in Farewells /\ i \in 1 .. Len(down[c])
    BY <1>4, <1>6
  <2>2. CASE j = k + 1
    BY <1>4, <2>2
  <2>3. CASE j # k + 1
    <3>1. j \in i + 1 .. Len(down[c]) /\ j \in 1 .. k
      BY <1>4, <2>3
    <3>2. down[c][j].kind = "eof"
      BY <2>1, <3>1 DEF Connected, FarewellIsLast, Farewells
    <3> QED  BY <1>4, <3>1, <3>2
  <2> QED  BY <2>2, <2>3
<1> QED  BY <1>1, <1>2, <1>4, <1>5, <1>6, Speaks

LEMMA Connects ==
  ASSUME TypeOK, Connected, NEW c \in Client, Connect(c)
  PROVE  Connected'
<1> USE DEF Connected
<1>1. /\ phase[c] = "out" /\ phase'[c] = "attached"
      /\ \A d \in Client : d # c => phase'[d] = phase[d] /\ up'[d] = up[d]
      /\ up'[c] = <<[kind |-> "attach", size |-> term[c]]>>
      /\ UNCHANGED <<clients, down, exit>>
  BY DEF Connect, TypeOK, WireType, TerminalType, session
<1>2. Len(up'[c]) = 1 /\ c \notin clients /\ down[c] = <<>>
  BY <1>1 DEF Fresh
<1>3. Fresh'
  BY <1>1 DEF Fresh
<1>4. AttachFirst' /\ Attaching' \subseteq Attaching \cup {c}
  BY <1>1, <1>2 DEF AttachFirst, Attaching
<1>5. Waiting'
  <2>1. \A i \in 1 .. Len(down[c]) : FALSE
    BY <1>2
  <2> QED  BY <1>1, <1>2, <1>4, <2>1 DEF Waiting
<1>6. Streaming' /\ FarewellIsLast'
  BY <1>1 DEF Streaming, FarewellIsLast
<1> QED  BY <1>3, <1>4, <1>5, <1>6

LEMMA TerminalConnected ==
  ASSUME TypeOK, Connected, NEW c \in Client, Terminal(c)
  PROVE  Connected'
<1>1. \A i \in 1 .. Len(down[c]) :
        down[c][i].kind \in Farewells =>
          \A j \in i + 1 .. Len(down[c]) : down[c][j].kind = "eof"
  BY DEF Connected, FarewellIsLast, Farewells
<1>2. CASE Connect(c)
  BY <1>2, Connects
<1>3. ASSUME NEW s \in Size, TerminalResizes(c, s) PROVE Connected'
  <2>1. Unasked
    BY <1>3, Untouched DEF TerminalResizes, wires, Connected
  <2> QED  BY <1>1, <1>3, <2>1, Speaks DEF TerminalResizes, session, wires
<1>4. CASE ReportResize(c)
  <2> DEFINE said == <<[kind |-> "resize", size |-> term[c]]>>
  <2>1. [kind |-> "resize", size |-> term[c]] \in Message
    BY MessagesTyped DEF TypeOK
  <2>2. said \in Seq(Message) /\ \A i \in 1 .. Len(said) : said[i].kind # "attach"
    BY <2>1
  <2>3. up' = [up EXCEPT ![c] = @ \o said]
    BY <1>4, <2>1, AppendIsConcat DEF ReportResize, TypeOK, WireType
  <2> HIDE DEF said
  <2>4. Unasked
    BY <2>2, <2>3, Said DEF TypeOK, Connected
  <2>5. \A d \in Client : d # c => up'[d] = up[d]
    BY <2>3 DEF TypeOK, WireType
  <2> QED  BY <1>1, <1>4, <2>4, <2>5, Speaks DEF ReportResize, session
<1>5. CASE ReadFrame(c)
  BY <1>5, Reads
<1>6. CASE ReadFarewell(c) \/ ClientDies(c)
  BY <1>6, Leaves DEF ReadFarewell, ClientDies
<1>7. CASE CutOff(c)
  BY <1>7, CutsOff
<1>8. ASSUME NEW word \in LastWords, SayLastWords(c, word) PROVE Connected'
  <2> DEFINE said == <<[kind |-> word], [kind |-> "gone"]>>
  <2>1. /\ [kind |-> word] \in Message /\ [kind |-> "gone"] \in Message
        /\ word # "attach"
    BY ClientsAssumption, MessagesTyped DEF TypeOK
  <2>2. said \in Seq(Message) /\ \A i \in 1 .. Len(said) : said[i].kind # "attach"
    BY <2>1
  <2>3. up' = [up EXCEPT ![c] = @ \o said]
    BY <1>8 DEF SayLastWords
  <2> HIDE DEF said
  <2>4. Unasked
    BY <2>2, <2>3, Said DEF TypeOK, Connected
  <2>5. /\ \A d \in Client : d # c => up'[d] = up[d] /\ phase'[d] = phase[d]
        /\ phase[c] = "attached" /\ phase'[c] = "leaving" /\ down' = down
        /\ UNCHANGED <<clients, exit>>
    BY <1>8 DEF SayLastWords, TypeOK, WireType, TerminalType, session
  <2> QED  BY <1>1, <2>4, <2>5, Speaks
<1> QED  BY <1>2, <1>3, <1>4, <1>5, <1>6, <1>7, <1>8 DEF Terminal

LEMMA InitConnected == Init => Connected
  BY DEF Init, Connected, Fresh, AttachFirst, Waiting, Attaching, Streaming, FarewellIsLast

LEMMA StepConnected ==
  ASSUME TypeOK, Connected, [Next]_vars
  PROVE  Connected'
<1>1. CASE Next
  BY <1>1, SessionConnected, TerminalConnected DEF Next
<1>2. CASE UNCHANGED vars
  BY <1>2 DEF vars, session, wires, terminals, Connected, Fresh, AttachFirst, Waiting,
              Attaching, Streaming, FarewellIsLast
<1> QED  BY <1>1, <1>2

LEMMA AlwaysConnected == Spec => [](TypeOK /\ Connected)
<1>1. TypeOK /\ Connected /\ [Next]_vars => (TypeOK /\ Connected)'
  BY StepTypes, StepConnected
<1> QED  BY InitTypes, InitConnected, <1>1, PTL DEF Spec

(* A goodbye is the last thing a client is sent, and it is sent only to a  *)
(* client that is counted no longer.                                       *)
THEOREM FarewellAlwaysLast == Spec => []FarewellIsLast
<1>1. TypeOK /\ Connected => FarewellIsLast
  BY DEF Connected
<1> QED  BY AlwaysConnected, <1>1, PTL

-----------------------------------------------------------------------------
(* Diffs apply to what the client shows.                                   *)

(* Nothing is believed of a client that is not attached.                   *)
Forgotten == \A c \in Client \ clients : front[c] = Unknown

(* An attached client of which nothing is known will be painted in full.   *)
Owed == \A c \in clients : front[c] = Unknown => c \in repaint

(* What a client shows once it has read everything.                        *)
InTheEnd(c) == Before(c, Len(down[c]) + 1)

Believed ==
  exit = "Running" =>
    \A c \in clients : front[c] # Unknown => InTheEnd(c) \in {front[c], Unknown, Unheard}

Tracked == Forgotten /\ Owed /\ Believed /\ DiffsApply

-----------------------------------------------------------------------------
(* What is on its way already is read as it would have been.               *)

LEMMA FrameKnown == ASSUME NEW s, NEW n PROVE <<s, n>> # Unknown
  BY DEF Unknown

LEMMA SameBefore ==
  ASSUME NEW c \in Client, NEW n \in Nat, NEW i \in 1 .. n + 1, screen'[c] = screen[c],
         \A j \in 1 .. n : down'[c][j] = down[c][j]
  PROVE  Before(c, i)' = Before(c, i)
<1>1. CASE i = 1
  BY <1>1 DEF Before
<1>2. CASE i # 1
  <2>1. i - 1 \in 1 .. n
    BY <1>2
  <2> QED  BY <1>2, <2>1 DEF Before
<1> QED  BY <1>1, <1>2

(* A step that sends nobody a diff, and believes nothing new of anybody.   *)
Extends(c) ==
  /\ Len(down[c]) <= Len(down'[c])
  /\ \A i \in 1 .. Len(down[c]) : down'[c][i] = down[c][i]
  /\ \A i \in Len(down[c]) + 1 .. Len(down'[c]) : down'[c][i].kind # "diff"

NothingNew ==
  \A c \in clients' :
    front'[c] # Unknown => c \in clients /\ front'[c] = front[c] /\ down'[c] = down[c]

LEMMA Extended ==
  ASSUME TypeOK, Tracked, Forgotten', Owed', screen' = screen, NothingNew,
         exit' = "Running" => exit = "Running", \A c \in Client : Extends(c)
  PROVE  Tracked'
<1> USE DEF Tracked
<1>1. \A c \in Client : Len(down[c]) \in Nat
  BY DEF TypeOK, WireType
<1>2. DiffsApply'
  <2>1. ASSUME NEW c \in Client, NEW i \in 1 .. Len(down'[c]), down'[c][i].kind = "diff"
        PROVE  Before(c, i)' \in {down'[c][i].from, Unknown, Unheard}
    <3>1. i \in 1 .. Len(down[c]) /\ down'[c][i] = down[c][i]
      BY <1>1, <2>1 DEF Extends
    <3>2. Before(c, i)' = Before(c, i)
      <4>1. PICK n \in Nat : n = Len(down[c])
        BY <1>1
      <4>2. /\ i \in 1 .. n + 1 /\ screen'[c] = screen[c]
            /\ \A j \in 1 .. n : down'[c][j] = down[c][j]
        BY <3>1, <4>1 DEF Extends
      <4> QED  BY <4>2, SameBefore
    <3> QED  BY <2>1, <3>1, <3>2 DEF DiffsApply
  <2> QED  BY <2>1 DEF DiffsApply
<1>3. Believed'
  <2>1. ASSUME NEW c \in clients', exit' = "Running", front'[c] # Unknown
        PROVE  InTheEnd(c)' \in {front'[c], Unknown, Unheard}
    <3>1. /\ c \in Client /\ c \in clients /\ front'[c] = front[c]
          /\ down'[c] = down[c]
      BY <2>1 DEF NothingNew, TypeOK, SessionType
    <3>2. InTheEnd(c)' = InTheEnd(c)
      BY <3>1 DEF InTheEnd, Before
    <3> QED  BY <2>1, <3>1, <3>2 DEF Believed
  <2> QED  BY <2>1 DEF Believed
<1> QED  BY <1>2, <1>3

LEMMA SameSent == ASSUME TypeOK, down' = down PROVE \A c \in Client : Extends(c)
  BY DEF Extends, TypeOK, WireType

LEMMA GoodbyeSent ==
  ASSUME TypeOK, NEW S, NEW farewell \in {"detached", "switch", "exit"}, Farewell(S, farewell)
  PROVE  /\ \A c \in Client : Extends(c)
         /\ \A c \in Client \ (S \cap clients) : down'[c] = down[c]
<1>1. \A c \in Client \ (S \cap clients) : down'[c] = down[c]
  BY DEF Farewell
<1>2. ASSUME NEW c \in Client PROVE Extends(c)
  <2>1. down[c] \in Seq(Delivery) /\ [kind |-> farewell] \in Delivery
    BY DEF TypeOK, WireType, Delivery
  <2>2. CASE c \in S \cap clients
    <3>1. down'[c] = Append(down[c], [kind |-> farewell])
      BY <2>2 DEF Farewell
    <3>2. /\ Len(down[c]) \in Nat /\ Len(down'[c]) = Len(down[c]) + 1
          /\ \A i \in 1 .. Len(down[c]) : down'[c][i] = down[c][i]
          /\ down'[c][Len(down[c]) + 1] = [kind |-> farewell]
      BY <2>1, <3>1, AppendProperties
    <3>3. down'[c][Len(down[c]) + 1].kind # "diff"
      BY <3>2
    <3> QED  BY <3>2, <3>3 DEF Extends
  <2>3. CASE c \notin S \cap clients
    BY <1>1, <2>1, <2>3 DEF Extends
  <2> QED  BY <2>2, <2>3
<1> QED  BY <1>1, <1>2

-----------------------------------------------------------------------------
(* The pieces of the session's handlers.                                   *)

LEMMA ResizeOwes ==
  ASSUME NEW s, NEW cs, NEW owed, ResizeTo(s, cs, owed), clients' = cs,
         \A c \in cs : front'[c] = Unknown => c \in owed
  PROVE  Owed'
  BY DEF ResizeTo, Owed

LEMMA DropTracks ==
  ASSUME TypeOK, Tracked, NEW S, Drop(S)
  PROVE  /\ Forgotten' /\ Owed' /\ clients' = clients \ S
         /\ \A c \in clients' : c \in clients /\ front'[c] = front[c]
<1>1. /\ clients' = clients \ S /\ clients \subseteq Client
      /\ \A c \in Client : front'[c] = IF c \in S THEN Unknown ELSE front[c]
  BY DEF Drop, Forget, TypeOK, SessionType
<1>2. Forgotten'
  BY <1>1 DEF Tracked, Forgotten
<1>3. \A c \in clients \ S : front'[c] = Unknown => c \in repaint
  BY <1>1 DEF Tracked, Owed
<1>4. Owed'
  BY <1>1, <1>3, ResizeOwes DEF Drop
<1> QED  BY <1>1, <1>2, <1>4

(* A handler that says goodbye to those it drops.                          *)
LEMMA DismissTracks ==
  ASSUME TypeOK, Tracked, NEW S, NEW farewell \in {"detached", "switch", "exit"},
         Drop(S), Farewell(S, farewell), screen' = screen,
         exit' = "Running" => exit = "Running"
  PROVE  Tracked'
<1>1. clients \subseteq Client
  BY DEF TypeOK, SessionType
<1>2. NothingNew
  BY <1>1, DropTracks, GoodbyeSent DEF NothingNew
<1> QED  BY <1>2, DropTracks, GoodbyeSent, Extended

(* Nothing but a diff from what is believed, and that to a client that     *)
(* something is believed of.                                               *)
LEMMA RenderTracks ==
  ASSUME TypeOK, Tracked, Render
  PROVE  Tracked'
<1> DEFINE now == <<size, content>>
<1> USE DEF Tracked
<1>1. /\ exit = "Running" /\ exit' = "Running" /\ clients' = clients /\ screen' = screen
      /\ \A c \in Client : front'[c] = IF c \in clients THEN now ELSE front[c]
      /\ clients \subseteq Client /\ now # Unknown
  BY FrameKnown DEF Render, terminals, TypeOK, SessionType
<1>2. Forgotten' /\ Owed'
  BY <1>1 DEF Forgotten, Owed
<1>3. ASSUME NEW c \in clients
      PROVE  /\ InTheEnd(c)' \in {now, Unknown, Unheard}
             /\ \A i \in 1 .. Len(down'[c]) :
                  down'[c][i].kind = "diff" => Before(c, i)' \in {down'[c][i].from, Unknown, Unheard}
  <2>1. c \in Client /\ Len(down[c]) \in Nat
    BY <1>1 DEF TypeOK, WireType
  <2>2. CASE Painted(c, now) = <<>> /\ front[c] = now
    <3>1. down'[c] = down[c]
      BY <2>1, <2>2, NothingSent
    <3>2. InTheEnd(c)' = InTheEnd(c) /\ InTheEnd(c) \in {now, Unknown, Unheard}
      BY <1>1, <2>2, <3>1 DEF InTheEnd, Before, Believed
    <3>3. \A i \in 1 .. Len(down[c]) : Before(c, i)' = Before(c, i)
      BY <1>1, <3>1 DEF Before
    <3> QED  BY <2>1, <3>1, <3>2, <3>3 DEF DiffsApply
  <2>3. CASE /\ Painted(c, now) = <<SentFrame(c)>> /\ SentFrame(c).to = now
             /\ SentFrame(c).kind = "diff" => c \notin repaint /\ SentFrame(c).from = front[c]
    <3>1. PICK n \in Nat : n = Len(down[c])
      BY <2>1
    <3>2. /\ Len(down'[c]) = n + 1 /\ down'[c][n + 1] = SentFrame(c)
          /\ \A i \in 1 .. n : down'[c][i] = down[c][i]
      BY <2>3, <3>1, FramesSent
    <3>3. \A i \in 1 .. n + 1 : Before(c, i)' = Before(c, i)
      BY <1>1, <2>1, <3>2, SameBefore
    <3>4. InTheEnd(c)' = now
      BY <2>3, <3>2 DEF InTheEnd, Before
    <3>5. \A i \in 1 .. n :
            down'[c][i].kind = "diff" => Before(c, i)' \in {down'[c][i].from, Unknown, Unheard}
      BY <2>1, <3>1, <3>2, <3>3 DEF DiffsApply
    <3>6. SentFrame(c).kind = "diff" => Before(c, n + 1)' \in {SentFrame(c).from, Unknown, Unheard}
      <4>1. SUFFICES ASSUME SentFrame(c).kind = "diff"
                     PROVE  Before(c, n + 1) \in {front[c], Unknown, Unheard}
        BY <2>3, <3>3
      <4>2. front[c] # Unknown
        BY <2>3, <4>1 DEF Owed
      <4> QED  BY <1>1, <3>1, <4>2 DEF Believed, InTheEnd
    <3> QED  BY <3>2, <3>4, <3>5, <3>6
  <2> QED  BY <2>2, <2>3, PaintedShape
<1>4. ASSUME NEW c \in Client, c \notin clients
      PROVE  /\ down'[c] = down[c]
             /\ \A i \in 1 .. Len(down[c]) : Before(c, i)' = Before(c, i)
  BY <1>1, <1>4, NothingSent DEF Before
<1>5. DiffsApply'
  BY <1>3, <1>4 DEF DiffsApply
<1>6. Believed'
  BY <1>1, <1>3 DEF Believed
<1> QED  BY <1>2, <1>5, <1>6

-----------------------------------------------------------------------------
(* The handlers.                                                           *)

(* One that leaves the session's beliefs and everybody's deliveries alone. *)
LEMMA Unmoved ==
  ASSUME TypeOK, Tracked, UNCHANGED <<clients, front, down, screen>>,
         \A c \in clients : c \in repaint => c \in repaint',
         exit' = "Running" => exit = "Running"
  PROVE  Tracked'
<1>1. Forgotten' /\ Owed'
  BY DEF Tracked, Forgotten, Owed
<1>2. NothingNew
  BY DEF NothingNew
<1> QED  BY <1>1, <1>2, SameSent, Extended

LEMMA ReceiveTracks ==
  ASSUME TypeOK, Tracked, NEW c \in Client, Receive(c)
  PROVE  Tracked'
<1>1. CASE ReceiveAttach(c)
  <2>1. /\ clients' = clients \cup {c} /\ exit' = exit
        /\ UNCHANGED <<front, down, screen>>
    BY <1>1 DEF ReceiveAttach, terminals
  <2>2. \E s : ResizeTo(s, clients', clients')
    BY <1>1 DEF ReceiveAttach
  <2>3. Owed'
    BY <2>2, ResizeOwes
  <2>4. Forgotten' /\ NothingNew
    BY <2>1 DEF Tracked, Forgotten, NothingNew
  <2> QED  BY <2>1, <2>3, <2>4, SameSent, Extended
<1>2. CASE ReceiveResize(c)
  <2>1. /\ exit' = exit /\ UNCHANGED <<clients, front, down, screen>>
    BY <1>2 DEF ReceiveResize, terminals
  <2>2. \E s, owed : ResizeTo(s, clients, owed) /\ repaint \subseteq owed
    BY <1>2 DEF ReceiveResize
  <2>3. \A d \in clients : d \in repaint => d \in repaint'
    BY <2>2 DEF ResizeTo
  <2> QED  BY <2>1, <2>3, Unmoved
<1>3. CASE ReceiveDetach(c)
  BY <1>3, DismissTracks DEF ReceiveDetach, terminals
<1>4. CASE ReceiveQuit(c)
  BY <1>4, DismissTracks DEF ReceiveQuit, terminals
<1>5. CASE ReceiveGone(c)
  <2>1. UNCHANGED <<down, screen, exit>>
    BY <1>5 DEF ReceiveGone, terminals
  <2>2. CASE c \in clients
    <3>1. Drop({c})
      BY <1>5, <2>2 DEF ReceiveGone
    <3>2. NothingNew
      BY <2>1, <3>1, DropTracks DEF NothingNew
    <3> QED  BY <2>1, <3>1, <3>2, DropTracks, SameSent, Extended
  <2>3. CASE c \notin clients
    <3>1. UNCHANGED <<clients, front, repaint>>
      BY <1>5, <2>3 DEF ReceiveGone, session
    <3> QED  BY <2>1, <3>1, Unmoved
  <2> QED  BY <2>2, <2>3
<1> QED  BY <1>1, <1>2, <1>3, <1>4, <1>5 DEF Receive

LEMMA SessionTracks ==
  ASSUME TypeOK, Tracked, Session
  PROVE  Tracked'
<1>1. ASSUME NEW c \in Client, Receive(c) PROVE Tracked'
  BY <1>1, ReceiveTracks
<1>2. ASSUME NEW S, DetachClient(S) PROVE Tracked'
  BY <1>2, DismissTracks DEF DetachClient, terminals
<1>3. CASE SwitchClient
  BY <1>3, DismissTracks DEF SwitchClient, terminals
<1>4. CASE Goodbye
  BY <1>4, DismissTracks DEF Goodbye, terminals
<1>5. CASE RefreshClient \/ Change \/ Stop \/ \E value \in Settings \ {option} : SetNestedKeys(value)
  <2>1. /\ UNCHANGED <<clients, front, down, screen>>
        /\ exit' = "Running" => exit = "Running"
        /\ \A c \in clients : c \in repaint => c \in repaint'
    BY <1>5 DEF RefreshClient, Change, Stop, SetNestedKeys, session, wires, terminals
  <2> QED  BY <2>1, Unmoved
<1>6. CASE Render
  BY <1>6, RenderTracks
<1> QED  BY <1>1, <1>2, <1>3, <1>4, <1>5, <1>6 DEF Session, Receive

(* A client whose terminal, or whose stream, is not what it was: nobody    *)
(* knows what it shows, or it shows what it was going to.                  *)
LEMMA ClientMoves ==
  ASSUME TypeOK, Tracked, NEW c \in Client, UNCHANGED <<clients, front, repaint, exit>>,
         \A d \in Client : d # c => down'[d] = down[d] /\ screen'[d] = screen[d],
         \A i \in 1 .. Len(down'[c]) :
           down'[c][i].kind = "diff" => Before(c, i)' \in {down'[c][i].from, Unknown, Unheard},
         exit # "Running" \/ InTheEnd(c)' \in {InTheEnd(c), Unknown, Unheard}
  PROVE  Tracked'
<1> USE DEF Tracked
<1>1. Forgotten' /\ Owed'
  BY DEF Forgotten, Owed
<1>2. \A d \in Client : d # c =>
        InTheEnd(d)' = InTheEnd(d) /\ \A i \in 1 .. Len(down[d]) : Before(d, i)' = Before(d, i)
  BY DEF InTheEnd, Before
<1>3. DiffsApply'
  BY <1>2 DEF DiffsApply
<1>4. Believed'
  BY <1>2 DEF Believed, TypeOK, SessionType
<1> QED  BY <1>1, <1>3, <1>4

(* What has been read is on the screen, or nobody knows what is.           *)
LEMMA ReadTracks ==
  ASSUME TypeOK, Tracked, NEW c \in Client, ReadFrame(c)
  PROVE  Tracked'
<1>1. /\ UNCHANGED <<clients, front, repaint, exit>>
      /\ \A d \in Client : d # c => down'[d] = down[d] /\ screen'[d] = screen[d]
      /\ down'[c] = Tail(down[c]) /\ down[c] # <<>> /\ down[c] \in Seq(Delivery)
      /\ screen'[c] \in {Head(down[c]).to, Unknown, Unheard}
  BY DEF ReadFrame, ShownAfter, TypeOK, WireType, TerminalType, session
<1>2. PICK n \in Nat : n = Len(down[c]) - 1
  <2>1. down[c] # <<>> /\ down[c] \in Seq(Delivery)
    BY <1>1
  <2>2. Len(down[c]) \in Nat /\ Len(down[c]) # 0
    BY ONLY <2>1, LenProperties, EmptySeq
  <2>3. Len(down[c]) - 1 \in Nat
    BY ONLY <2>2
  <2> QED  BY <2>3
<1>3. /\ Len(down[c]) = n + 1 /\ Len(down'[c]) = n /\ Head(down[c]) = down[c][1]
      /\ \A i \in 1 .. n : down'[c][i] = down[c][i + 1]
  BY <1>1, <1>2, HeadTailProperties
<1>4. ASSUME NEW i \in 1 .. n + 1
      PROVE  Before(c, i)' \in {Before(c, i + 1), Unknown, Unheard}
  <2>1. CASE i = 1
    BY <1>1, <1>3, <2>1 DEF Before
  <2>2. CASE i # 1
    <3>1. i - 1 \in 1 .. n /\ (i - 1) + 1 = i /\ (i + 1) - 1 = i /\ i + 1 # 1
      BY <2>2
    <3>2. down'[c][i - 1] = down[c][i]
      BY <1>3, <3>1
    <3>3. Before(c, i)' = down'[c][i - 1].to /\ Before(c, i + 1) = down[c][i].to
      BY <2>2, <3>1 DEF Before
    <3> QED  BY <3>2, <3>3
  <2> QED  BY <2>1, <2>2
<1>5. ASSUME NEW i \in 1 .. n, down'[c][i].kind = "diff"
      PROVE  Before(c, i)' \in {down'[c][i].from, Unknown, Unheard}
  <2>1. i + 1 \in 1 .. Len(down[c]) /\ down'[c][i] = down[c][i + 1]
    BY <1>3
  <2>2. Before(c, i + 1) \in {down'[c][i].from, Unknown, Unheard}
    BY <1>5, <2>1 DEF Tracked, DiffsApply
  <2> QED  BY <1>4, <2>2
<1>6. InTheEnd(c)' \in {InTheEnd(c), Unknown, Unheard}
  BY <1>3, <1>4 DEF InTheEnd
<1> QED  BY <1>1, <1>3, <1>5, <1>6, ClientMoves

LEMMA LeaveTracks ==
  ASSUME TypeOK, Tracked, NEW c \in Client, Leave(c)
  PROVE  Tracked'
<1>1. /\ UNCHANGED <<clients, front, repaint, exit>>
      /\ \A d \in Client : d # c => down'[d] = down[d] /\ screen'[d] = screen[d]
      /\ down'[c] = <<>> /\ screen'[c] = Unknown
  BY DEF Leave, TypeOK, WireType, TerminalType, session
<1>2. InTheEnd(c)' = Unknown
  BY <1>1 DEF InTheEnd, Before
<1> QED  BY <1>1, <1>2, ClientMoves

LEMMA CutOffTracks ==
  ASSUME TypeOK, Tracked, NEW c \in Client, CutOff(c)
  PROVE  Tracked'
<1>1. /\ UNCHANGED <<clients, front, repaint, exit, screen>> /\ exit # "Running"
      /\ \A d \in Client : d # c => down'[d] = down[d]
  BY DEF CutOff, TypeOK, WireType, session, terminals
<1>2. PICK k \in 0 .. Len(down[c]) : down'[c] = Append(SubSeq(down[c], 1, k), [kind |-> "eof"])
  BY DEF CutOff, TypeOK, WireType
<1>3. /\ k \in Nat /\ Len(down[c]) \in Nat /\ k <= Len(down[c]) /\ Len(down'[c]) = k + 1
      /\ \A i \in 1 .. k : i \in 1 .. Len(down[c]) /\ down'[c][i] = down[c][i]
      /\ down'[c][k + 1].kind = "eof"
  <2>1. down[c] \in Seq(Delivery) /\ [kind |-> "eof"] \in Delivery
    BY DEF TypeOK, WireType, Delivery
  <2>2. /\ SubSeq(down[c], 1, k) \in Seq(Delivery) /\ Len(SubSeq(down[c], 1, k)) = k
        /\ \A i \in 1 .. k : SubSeq(down[c], 1, k)[i] = down[c][i]
    BY <2>1, SubSeqProperties
  <2> QED  BY <1>2, <2>1, <2>2, AppendProperties
<1>4. \A i \in 1 .. k + 1 : Before(c, i)' = Before(c, i)
  BY <1>1, <1>3, SameBefore
<1>5. ASSUME NEW i \in 1 .. Len(down'[c]), down'[c][i].kind = "diff"
      PROVE  Before(c, i)' \in {down'[c][i].from, Unknown, Unheard}
  <2>1. i \in 1 .. k
    BY <1>3, <1>5
  <2> QED  BY <1>3, <1>4, <1>5, <2>1 DEF Tracked, DiffsApply
<1> QED  BY <1>1, <1>5, ClientMoves

LEMMA TerminalTracks ==
  ASSUME TypeOK, Tracked, NEW c \in Client, Terminal(c)
  PROVE  Tracked'
<1>1. CASE Connect(c) \/ ReportResize(c) \/ \E word \in LastWords : SayLastWords(c, word)
  BY <1>1, Unmoved DEF Connect, ReportResize, SayLastWords, session
<1>2. ASSUME NEW s \in Size, TerminalResizes(c, s) PROVE Tracked'
  <2>1. /\ UNCHANGED <<clients, front, repaint, exit, down>>
        /\ \A d \in Client : d # c => screen'[d] = screen[d]
        /\ screen'[c] \in {Unknown, Unheard}
    BY <1>2 DEF TerminalResizes, TypeOK, TerminalType, session, wires
  <2>2. \A i \in 1 .. Len(down[c]) + 1 : Before(c, i)' \in {Before(c, i), Unknown, Unheard}
    BY <2>1 DEF Before
  <2>3. \A i \in 1 .. Len(down[c]) :
          down[c][i].kind = "diff" => Before(c, i)' \in {down[c][i].from, Unknown, Unheard}
    BY <2>2 DEF Tracked, DiffsApply, TypeOK, WireType
  <2>4. InTheEnd(c)' \in {InTheEnd(c), Unknown, Unheard}
    BY <2>1 DEF InTheEnd, Before
  <2> QED  BY <2>1, <2>3, <2>4, ClientMoves
<1>3. CASE ReadFrame(c)
  BY <1>3, ReadTracks
<1>4. CASE ReadFarewell(c) \/ ClientDies(c)
  BY <1>4, LeaveTracks DEF ReadFarewell, ClientDies
<1>5. CASE CutOff(c)
  BY <1>5, CutOffTracks
<1> QED  BY <1>1, <1>2, <1>3, <1>4, <1>5 DEF Terminal

LEMMA InitTracked == Init => Tracked
  BY DEF Init, Tracked, Forgotten, Owed, Believed, DiffsApply

LEMMA StepTracked ==
  ASSUME TypeOK, Tracked, [Next]_vars
  PROVE  Tracked'
<1>1. CASE Next
  BY <1>1, SessionTracks, TerminalTracks DEF Next
<1>2. CASE UNCHANGED vars
  BY <1>2, Unmoved DEF vars, session, wires, terminals
<1> QED  BY <1>1, <1>2

(* Every diff a client reads was computed from the frame that it shows, or *)
(* its terminal has reflowed since.                                        *)
THEOREM DiffsAlwaysApply == Spec => []DiffsApply
<1>1. TypeOK /\ Tracked /\ [Next]_vars => (TypeOK /\ Tracked)'
  BY StepTypes, StepTracked
<1>2. TypeOK /\ Tracked => DiffsApply
  BY DEF Tracked
<1> QED  BY InitTypes, InitTracked, <1>1, <1>2, PTL DEF Spec
=============================================================================
