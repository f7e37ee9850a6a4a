--------------------------- MODULE SessionClients ---------------------------
(***************************************************************************)
(* The terminals that watch one weave session: the client process of       *)
(* src/src/session/client.rs, its connection in src/src/session/server.rs, *)
(* and the session's record of it in src/src/app.rs.                       *)
(*                                                                         *)
(* A client is one connection; its id is never used again.  The windows    *)
(* are reduced to `content`, what a frame composed now would show, and a   *)
(* frame to the size and the content it was composed from.  The cursor is  *)
(* part of the content.  How a frame becomes escape sequences is left out: *)
(* a diff painted on the screen it was computed from yields the new frame, *)
(* and on any other screen yields no frame anybody knows of.               *)
(***************************************************************************)
EXTENDS Integers, Sequences, FiniteSets

CONSTANTS
  Client,          \* the connections that may be made
  Size,            \* the terminal sizes, as <<columns, rows>>
  InitialSize,     \* the size of a session nobody has watched yet
  Nested,          \* the clients whose terminal is reached over SSH
  NestedEnv,       \* was the server itself started over SSH?
  Settings,        \* the values of nested-keys that are ever set
  LastWords,       \* the protocol's farewells that a client may send
  Endings,         \* the ways the session's loop may end
  MaxContent,      \* bound: how often the content changes
  MaxTurns         \* bound: how often terminals, options or a user disturb it

ASSUME ClientsAssumption ==
  /\ Size \subseteq Nat \X Nat
  /\ InitialSize \in Size
  /\ Nested \subseteq Client
  /\ NestedEnv \in BOOLEAN
  /\ Settings \subseteq {"auto", "on", "off"}
  /\ LastWords \subseteq {"detach", "quit"}
  /\ Endings \subseteq {"Quit", "Failed"}
  /\ MaxContent \in Nat
  /\ MaxTurns \in Nat

(* What a terminal shows after it has reflowed, and when the session will  *)
(* not hear that it has.                                                   *)
Unknown == <<>>
Unheard == <<0>>
Content == 0 .. MaxContent
Frame == (Nat \X Nat) \X Content

VARIABLES
  clients,   \* App.clients
  recorded,  \* AttachedClient.cols and rows
  repaint,   \* the clients with needs_full_repaint set
  front,     \* AttachedClient.front: what the session believes a client shows
  size,      \* App.back.width and height: the size of the session
  content,   \* what a frame composed now would show
  dirty,     \* App.dirty
  leader,    \* Keymap.leader
  option,    \* the option nested-keys
  exit,      \* App.exit, or how `run` ended
  up,        \* messages a connection task has for the app
  down,      \* messages on their way to a client
  phase,     \* where a client process is
  term,      \* the real size of a client's terminal
  winch,     \* clients with a SIGWINCH they have not seen
  screen,    \* what a client's terminal really shows
  turns      \* how often MaxTurns has been drawn on

session == <<clients, recorded, repaint, front, size, dirty, leader, option>>
wires == <<up, down>>
terminals == <<phase, term, winch, screen>>
vars == <<session, content, exit, wires, terminals, turns>>

Init ==
  /\ clients = {}
  /\ recorded = [c \in Client |-> InitialSize]
  /\ repaint = {}
  /\ front = [c \in Client |-> Unknown]
  /\ size = InitialSize
  /\ content = 0
  /\ dirty = TRUE
  /\ leader = IF NestedEnv THEN "CtrlAlt" ELSE "Alt"
  /\ option = "auto"
  /\ exit = "Running"
  /\ up = [c \in Client |-> <<>>]
  /\ down = [c \in Client |-> <<>>]
  /\ phase = [c \in Client |-> "out"]
  /\ term \in [Client -> Size]
  /\ winch = {}
  /\ screen = [c \in Client |-> Unknown]
  /\ turns = 0

-----------------------------------------------------------------------------
(* Pieces of the handlers.  A handler is a chain of these: which clients   *)
(* are left, what is recorded of them, and then what follows from that.    *)

Least(S) == CHOOSE n \in S : \A m \in S : n <= m

(* renegotiate_size: the smallest terminal in each direction, or the size  *)
(* the session has when nobody is watching.                                *)
Negotiated(cs, rec) ==
  IF cs = {} THEN size
  ELSE <<Least({rec[c][1] : c \in cs}), Least({rec[c][2] : c \in cs})>>

(* wants_nested_keys: `auto` asks the terminals, and the server's own      *)
(* environment when there are none.                                        *)
WantsNested(cs, opt) ==
  opt = "on" \/ (opt = "auto" /\ IF cs = {} THEN NestedEnv ELSE cs \cap Nested # {})

(* refresh_nesting; a leader that moves is announced on the status bar.    *)
RefreshNesting(cs, opt) ==
  leader' = IF WantsNested(cs, opt) THEN "CtrlAlt" ELSE "Alt"

(* resize_to(s): nothing when it is the size already, a repaint of every   *)
(* screen when it is not.  `owed` are the clients owed one anyway.         *)
ResizeTo(s, cs, owed) ==
  /\ size' = s
  /\ repaint' = IF s # size THEN cs ELSE owed \cap cs
  /\ dirty' = (dirty \/ s # size \/ owed # {} \/ leader' # leader)

(* What was recorded of the clients of S goes with them.                   *)
Forget(S) ==
  /\ recorded' = [c \in Client |-> IF c \in S THEN InitialSize ELSE recorded[c]]
  /\ front' = [c \in Client |-> IF c \in S THEN Unknown ELSE front[c]]

(* drop_client for every client of S, and the size of those who are left.  *)
Drop(S) ==
  /\ clients' = clients \ S
  /\ RefreshNesting(clients \ S, option)
  /\ ResizeTo(Negotiated(clients \ S, recorded), clients \ S, repaint)
  /\ Forget(S)
  /\ UNCHANGED option

(* `farewell` goes to every client of S that is attached.                  *)
(* Mutant: it goes to everybody who ever connected.                        *)
FarewellToAll(S, farewell) ==
  down' = [c \in Client |-> IF phase[c] = "out" THEN down[c]
                            ELSE Append(down[c], [kind |-> farewell])]

Farewell(S, farewell) ==
  down' = [c \in Client |-> IF c \in S \cap clients
                            THEN Append(down[c], [kind |-> farewell]) ELSE down[c]]

(* The app takes a client's next message, which is of this kind.           *)
Hears(c, kind) ==
  /\ exit = "Running"
  /\ up[c] # <<>> /\ Head(up[c]).kind = kind
  /\ up' = [up EXCEPT ![c] = Tail(@)]

(* A frame of size s can be shown whole by a terminal of size t.           *)
Fits(s, t) == s[1] <= t[1] /\ s[2] <= t[2]

-----------------------------------------------------------------------------
(* The session hears of its clients.                                       *)

(* attach_client: everybody gets a full repaint.                           *)
ReceiveAttach(c) ==
  LET rec == [recorded EXCEPT ![c] = Head(up[c]).size]
      cs == clients \cup {c}
  IN
  /\ Hears(c, "attach")
  /\ clients' = cs
  /\ recorded' = rec
  /\ RefreshNesting(cs, option)
  /\ ResizeTo(Negotiated(cs, rec), cs, cs)
  /\ UNCHANGED <<front, option, content, exit, down, terminals, turns>>

(* resize_client, and with it everybody's share in the size.               *)
(* Mutant: a repaint is left to the session changing size.                 *)
ReceiveResizeUnpainted(c) ==
  LET s == Head(up[c]).size
      rec == [recorded EXCEPT ![c] = s]
  IN
  /\ Hears(c, "resize")
  /\ UNCHANGED leader
  /\ \/ /\ c \in clients
        /\ recorded' = rec
        /\ ResizeTo(Negotiated(clients, rec), clients, repaint)
     \/ /\ c \notin clients
        /\ UNCHANGED recorded
        /\ ResizeTo(s, clients, repaint)
  /\ UNCHANGED <<clients, front, option, content, exit, down, terminals, turns>>

(* A client that is not known is taken for the terminal of a local run.    *)
ReceiveResize(c) ==
  LET s == Head(up[c]).size
      rec == [recorded EXCEPT ![c] = s]
      owed == IF recorded[c] # s THEN repaint \cup {c} ELSE repaint
  IN
  /\ Hears(c, "resize")
  /\ UNCHANGED leader
  /\ \/ /\ c \in clients
        /\ recorded' = rec
        /\ ResizeTo(Negotiated(clients, rec), clients, owed)
     \/ /\ c \notin clients
        /\ UNCHANGED recorded
        /\ ResizeTo(s, clients, repaint)
  /\ UNCHANGED <<clients, front, option, content, exit, down, terminals, turns>>

(* Detach and Quit say goodbye to every client, whoever sent them.         *)
ReceiveDetach(c) ==
  /\ Hears(c, "detach")
  /\ Drop(clients)
  /\ Farewell(clients, "detached")
  /\ UNCHANGED <<content, exit, terminals, turns>>

ReceiveQuit(c) ==
  /\ Hears(c, "quit")
  /\ Drop(clients)
  /\ Farewell(clients, "exit")
  /\ exit' = "Quit"
  /\ UNCHANGED <<content, terminals, turns>>

(* Mutant: the client goes, and the session keeps the size it fitted.      *)
ReceiveGoneUnmeasured(c) ==
  /\ Hears(c, "gone")
  /\ clients' = clients \ {c}
  /\ RefreshNesting(clients \ {c}, option)
  /\ ResizeTo(size, clients \ {c}, repaint)
  /\ Forget({c})
  /\ UNCHANGED <<option, content, exit, down, terminals, turns>>

(* The connection has closed; the client may have been dropped long ago.   *)
ReceiveGone(c) ==
  /\ Hears(c, "gone")
  /\ IF c \in clients THEN Drop({c}) ELSE UNCHANGED session
  /\ UNCHANGED <<content, exit, down, terminals, turns>>

Receive(c) ==
  \/ ReceiveAttach(c) \/ ReceiveResize(c) \/ ReceiveDetach(c)
  \/ ReceiveQuit(c) \/ ReceiveGone(c)

-----------------------------------------------------------------------------
(* The session acts.                                                       *)

(* detach-client: one client, all of them, or all but one.                 *)
DetachClient(S) ==
  /\ exit = "Running"
  /\ Drop(S)
  /\ Farewell(S, "detached")
  /\ UNCHANGED <<content, exit, up, terminals, turns>>

(* switch-client hands everybody to another session.                       *)
SwitchClient ==
  /\ exit = "Running"
  /\ clients # {}
  /\ Drop(clients)
  /\ Farewell(clients, "switch")
  /\ UNCHANGED <<content, exit, up, terminals, turns>>

RefreshClient ==
  /\ exit = "Running" /\ turns < MaxTurns
  /\ repaint' = clients
  /\ dirty' = TRUE
  /\ turns' = turns + 1
  /\ UNCHANGED <<clients, recorded, front, size, content, leader, option, exit, wires, terminals>>

(* set-option nested-keys.                                                 *)
SetNestedKeys(value) ==
  /\ exit = "Running" /\ turns < MaxTurns
  /\ option' = value
  /\ RefreshNesting(clients, value)
  /\ dirty' = TRUE
  /\ turns' = turns + 1
  /\ UNCHANGED <<clients, recorded, repaint, front, size, content, exit, wires, terminals>>

(* Anything else that changes what is on the screen.                       *)
Change ==
  /\ exit = "Running"
  /\ content < MaxContent
  /\ content' = content + 1
  /\ dirty' = TRUE
  /\ UNCHANGED <<clients, recorded, repaint, front, size, leader, option, exit, wires, terminals, turns>>

(* What `c` is sent when `now` is composed: nothing when it is believed to *)
(* show that, and everything when it is not known what it shows.           *)
Painted(c, now) ==
  IF c \in repaint THEN <<[kind |-> "full", to |-> now]>>
  ELSE IF front[c] = now THEN <<>>
  ELSE <<[kind |-> "diff", from |-> front[c], to |-> now]>>

(* Mutant: the record is of the frame before this one.                     *)
RenderLate ==
  LET now == <<size, content>> IN
  /\ exit = "Running" /\ dirty /\ clients # {}
  /\ down' = [c \in Client |-> IF c \in clients THEN down[c] \o Painted(c, now) ELSE down[c]]
  /\ front' = [c \in Client |-> IF c \in repaint THEN now ELSE front[c]]
  /\ repaint' = {}
  /\ dirty' = FALSE
  /\ UNCHANGED <<clients, recorded, size, content, leader, option, exit, up, terminals, turns>>

(* render and flush_clients, in a tick or straight after an event.         *)
Render ==
  LET now == <<size, content>> IN
  /\ exit = "Running" /\ dirty /\ clients # {}
  /\ down' = [c \in Client |-> IF c \in clients THEN down[c] \o Painted(c, now) ELSE down[c]]
  /\ front' = [c \in Client |-> IF c \in clients THEN now ELSE front[c]]
  /\ repaint' = {}
  /\ dirty' = FALSE
  /\ UNCHANGED <<clients, recorded, size, content, leader, option, exit, up, terminals, turns>>

(* The loop ends: the last pane, kill-session or SIGTERM; or an error,     *)
(* which leaves `run` at once.                                             *)
Stop ==
  /\ exit = "Running"
  /\ exit' \in Endings
  /\ UNCHANGED <<session, content, wires, terminals, turns>>

Goodbye ==
  /\ exit = "Quit"
  /\ exit' = "Ended"
  /\ Drop(clients)
  /\ Farewell(clients, "exit")
  /\ UNCHANGED <<content, up, terminals, turns>>

-----------------------------------------------------------------------------
(* The clients and their connections.                                      *)

Live(c) == phase[c] \in {"attached", "leaving"}

(* run: the size is read, sent with the handshake, and forwarded.          *)
Connect(c) ==
  /\ exit = "Running"
  /\ phase[c] = "out"
  /\ phase' = [phase EXCEPT ![c] = "attached"]
  /\ up' = [up EXCEPT ![c] = <<[kind |-> "attach", size |-> term[c]]>>]
  /\ UNCHANGED <<session, content, exit, down, term, winch, screen, turns>>

(* The size that the session knows of a client, or is about to.            *)
Told(c) ==
  LET sent == SelectSeq(up[c], LAMBDA m : m.kind \in {"attach", "resize"})
  IN IF sent = <<>> THEN recorded[c] ELSE sent[Len(sent)].size

(* The terminal reflows what it shows and raises SIGWINCH, which merges    *)
(* with one that has not been noticed: s is where it is left, and may be   *)
(* where it was.  A terminal that is left at the size last told will be    *)
(* reported as if nothing had happened to it.                              *)
TerminalResizes(c, s) ==
  /\ phase[c] = "attached" /\ turns < MaxTurns
  /\ term' = [term EXCEPT ![c] = s]
  /\ winch' = winch \cup {c}
  /\ screen' = [screen EXCEPT ![c] = IF s = Told(c) THEN Unheard ELSE Unknown]
  /\ turns' = turns + 1
  /\ UNCHANGED <<session, content, exit, wires, phase>>

(* Event::Resize carries the size at the time the signal is noticed.       *)
ReportResize(c) ==
  /\ phase[c] = "attached" /\ c \in winch
  /\ winch' = winch \ {c}
  /\ up' = [up EXCEPT ![c] = Append(@, [kind |-> "resize", size |-> term[c]])]
  /\ UNCHANGED <<session, content, exit, down, phase, term, screen, turns>>

(* What is shown once a frame is painted.  A diff over a frame of another  *)
(* size repaints its own cells but clears nothing around them.             *)
DiffPaints(shown, m) == shown = m.from /\ shown # Unknown /\ shown[1] = m.to[1]

ShownAfter(shown, m, t) ==
  IF (m.kind = "full" \/ DiffPaints(shown, m)) /\ Fits(m.to[1], t) THEN m.to
  ELSE IF shown = Unheard THEN Unheard
  ELSE Unknown

(* A frame is written to the terminal...                                   *)
ReadFrame(c) ==
  LET m == Head(down[c]) IN
  /\ Live(c) /\ down[c] # <<>>
  /\ m.kind \in {"full", "diff"}
  /\ down' = [down EXCEPT ![c] = Tail(@)]
  /\ screen' = [screen EXCEPT ![c] = ShownAfter(@, m, term[c])]
  /\ UNCHANGED <<session, content, exit, up, phase, term, winch, turns>>

(* ...and anything else ends `run`, as does the end of the stream, or of   *)
(* the client itself.  The reader then tells the app that it has gone.     *)
Leave(c) ==
  /\ phase' = [phase EXCEPT ![c] = "left"]
  /\ down' = [down EXCEPT ![c] = <<>>]
  /\ winch' = winch \ {c}
  /\ screen' = [screen EXCEPT ![c] = Unknown]
  /\ up' = IF phase[c] = "leaving" THEN up
           ELSE [up EXCEPT ![c] = Append(@, [kind |-> "gone"])]
  /\ UNCHANGED <<session, content, exit, term, turns>>

ReadFarewell(c) ==
  /\ Live(c) /\ down[c] # <<>>
  /\ Head(down[c]).kind \notin {"full", "diff"}
  /\ Leave(c)

ClientDies(c) == Live(c) /\ Leave(c)

(* A client's own last words; the reader stops after them.                 *)
SayLastWords(c, word) ==
  /\ phase[c] = "attached"
  /\ word \in LastWords
  /\ phase' = [phase EXCEPT ![c] = "leaving"]
  /\ up' = [up EXCEPT ![c] = @ \o <<[kind |-> word], [kind |-> "gone"]>>]
  /\ UNCHANGED <<session, content, exit, down, term, winch, screen, turns>>

(* Mutant: only the connections of attached clients are closed.            *)
CutOffAttached(c) ==
  /\ exit \in {"Ended", "Failed"} /\ Live(c) /\ c \in clients
  /\ \A i \in 1 .. Len(down[c]) : down[c][i].kind # "eof"
  /\ \E k \in 0 .. Len(down[c]) :
       down' = [down EXCEPT ![c] = Append(SubSeq(@, 1, k), [kind |-> "eof"])]
  /\ UNCHANGED <<session, content, exit, up, terminals, turns>>

(* The server has gone, and with it whatever its writers had not written.  *)
CutOff(c) ==
  /\ exit \in {"Ended", "Failed"} /\ Live(c)
  /\ \A i \in 1 .. Len(down[c]) : down[c][i].kind # "eof"
  /\ \E k \in 0 .. Len(down[c]) :
       down' = [down EXCEPT ![c] = Append(SubSeq(@, 1, k), [kind |-> "eof"])]
  /\ UNCHANGED <<session, content, exit, up, terminals, turns>>

-----------------------------------------------------------------------------
Session ==
  \/ \E c \in Client :
       \/ ReceiveAttach(c) \/ ReceiveResize(c) \/ ReceiveDetach(c)
       \/ ReceiveQuit(c) \/ ReceiveGone(c)
       \/ DetachClient({c}) \/ DetachClient(clients \ {c})
  \/ DetachClient(clients) \/ SwitchClient \/ RefreshClient
  \/ \E value \in Settings \ {option} : SetNestedKeys(value)
  \/ Change \/ Render \/ Stop \/ Goodbye

Terminal(c) ==
  \/ Connect(c) \/ ReportResize(c) \/ ReadFrame(c) \/ ReadFarewell(c)
  \/ ClientDies(c) \/ CutOff(c)
  \/ \E s \in Size : TerminalResizes(c, s)
  \/ \E word \in LastWords : SayLastWords(c, word)

Next == Session \/ \E c \in Client : Terminal(c)

Spec == Init /\ [][Next]_vars

(* The event loop serves the clock and the connections in turn, a client   *)
(* its terminal and its connection, and the runtime closes what is left.   *)
(* Nothing is assumed of users, nor of when a terminal changes.            *)
Fairness ==
  /\ WF_vars(Render) /\ WF_vars(Goodbye)
  /\ \A c \in Client :
       /\ WF_vars(Receive(c))
       /\ WF_vars(ReportResize(c))
       /\ WF_vars(ReadFrame(c) \/ ReadFarewell(c))
       /\ WF_vars(CutOff(c))

FairSpec == Spec /\ Fairness

-----------------------------------------------------------------------------
Message ==
  [kind : {"attach", "resize"}, size : Size] \cup [kind : {"detach", "quit", "gone"}]
Delivery ==
  [kind : {"full"}, to : Frame]
    \cup [kind : {"diff"}, from : Frame \cup {Unknown}, to : Frame]
    \cup [kind : {"detached", "switch", "exit", "eof"}]

SessionType ==
  /\ clients \in SUBSET Client
  /\ recorded \in [Client -> Size]
  /\ repaint \in SUBSET clients
  /\ front \in [Client -> Frame \cup {Unknown}]
  /\ size \in Nat \X Nat
  /\ dirty \in BOOLEAN
  /\ leader \in {"Alt", "CtrlAlt"}
  /\ option \in {"auto", "on", "off"}

WireType ==
  /\ up \in [Client -> Seq(Message)]
  /\ down \in [Client -> Seq(Delivery)]

TerminalType ==
  /\ phase \in [Client -> {"out", "attached", "leaving", "left"}]
  /\ term \in [Client -> Size]
  /\ winch \in SUBSET Client
  /\ screen \in [Client -> Frame \cup {Unknown, Unheard}]

LoopType ==
  /\ content \in Content
  /\ exit \in {"Running", "Quit", "Ended", "Failed"}
  /\ turns \in 0 .. MaxTurns

(* The sorts of the variables; a repaint is owed to clients only.          *)
TypeOK == SessionType /\ WireType /\ TerminalType /\ LoopType

(* What a client shows when it has read everything before its delivery i.  *)
Before(c, i) == IF i = 1 THEN screen[c] ELSE down[c][i - 1].to

(* No client ever paints a diff over another frame than the one the diff   *)
(* was computed from, unless its terminal has reflowed in the meantime.    *)
DiffsApply ==
  \A c \in Client : \A i \in 1 .. Len(down[c]) :
    down[c][i].kind = "diff" => Before(c, i) \in {down[c][i].from, Unknown, Unheard}

(* A goodbye is the last thing a client is sent, it is sent once, and only *)
(* to a client that is no longer counted.                                  *)
FarewellIsLast ==
  \A c \in Client : \A i \in 1 .. Len(down[c]) :
    down[c][i].kind \in {"detached", "switch", "exit"} =>
      /\ c \notin clients
      /\ \A j \in i + 1 .. Len(down[c]) : down[c][j].kind = "eof"

(* The session is as big as the smallest terminals watching it allow, and  *)
(* no smaller.                                                             *)
SizeFits ==
  clients # {} =>
    /\ \A c \in clients : Fits(size, recorded[c])
    /\ \E c \in clients : recorded[c][1] = size[1]
    /\ \E c \in clients : recorded[c][2] = size[2]

(* A resize from a client that has been dropped since it was sent.         *)
LateResize == \E c \in Client \ clients : ReceiveResize(c)

(* It gets that size whenever anybody comes or goes, and keeps it through  *)
(* everything else but a resize that comes too late.                       *)
SizeFollows ==
  [][clients' # clients \/ (SizeFits /\ ~ LateResize) => SizeFits']_vars

(* Every screen catches up: in the end each terminal the session fits on   *)
(* shows what the session is, unless it was last reflowed by a resize that *)
(* was undone before the client looked, of which the session never hears.  *)
ScreensSettle ==
  \A c \in Client :
    <>[](c \in clients /\ phase[c] = "attached" /\ exit = "Running" /\ Fits(size, term[c])
           => screen[c] \in {<<size, content>>, Unheard})

(* No client is left waiting on a session that has ended, not even one     *)
(* that was still attaching when it did.                                   *)
EveryoneLeaves ==
  \A c \in Client : (Live(c) /\ exit # "Running") ~> (phase[c] = "left")
=============================================================================
