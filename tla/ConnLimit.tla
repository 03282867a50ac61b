----------------------------- MODULE ConnLimit ------------------------------
(***************************************************************************)
(* The cap on open connections (internal/httpx/limitlistener.go): Accept   *)
(* takes a connection from the kernel, and with it a descriptor, and only  *)
(* then tries for a slot; without one it closes the connection and goes    *)
(* on.  Close gives the slot back.  net/http calls Accept from one         *)
(* goroutine, so one connection at a time is in its hand.                  *)
(*                                                                         *)
(* net/http may close a connection from two goroutines, the one serving it *)
(* and the one shutting the server down; each call is a closer here, and   *)
(* closers interleave.  Connections are reused: a closed one stands for    *)
(* the next client.                                                        *)
(***************************************************************************)
EXTENDS Integers, FiniteSets

CONSTANTS
    Conns,
    Closers,    \* goroutines that may call Close on one connection
    MaxConns        \* listen.max_conns, when it is positive

ASSUME ConnLimitAssumption ==
    IsFiniteSet(Conns) /\ Closers # {} /\ MaxConns \in Nat \ {0}

VARIABLES
    conn,       \* per connection: where it is, one of Stages
    socket,     \* connections whose descriptor the process holds
    taken,      \* len(limitListener.slots)
    once,       \* connections whose limitConn.once has run
    closer      \* per connection and goroutine: where its Close is

connVars == <<conn, socket, taken, once, closer>>

\* In the kernel's queue; in the Accept loop's hand, its slot not yet tried
\* for; a connection of the server's; refused and about to be closed; closed.
Stages == {"backlog", "pending", "accepted", "shedding", "shed"}

ConnTypeOK ==
    /\ conn \in [Conns -> Stages]
    /\ socket \subseteq Conns
    /\ taken \in 0 .. MaxConns
    /\ once \subseteq Conns
    /\ closer \in [Conns -> [Closers -> {"none", "releases", "returned"}]]

NoCloser == [k \in Closers |-> "none"]

ConnInit ==
    /\ conn = [c \in Conns |-> "backlog"]
    /\ socket = {}
    /\ taken = 0
    /\ once = {}
    /\ closer = [c \in Conns |-> NoCloser]

-----------------------------------------------------------------------------

\* Mutant of ConnRoom: one too many.
ConnRoom_OffByOne == taken <= MaxConns
ConnRoom == taken < MaxConns

\* The connection the Accept loop has taken and not yet decided or closed.
InHand == {c \in Conns : conn[c] \in {"pending", "shedding"}}

(* l.Listener.Accept(): a descriptor, before any slot. *)
AcceptFd(c) ==
    /\ conn[c] = "backlog" /\ InHand = {}
    /\ conn' = [conn EXCEPT ![c] = "pending"]
    /\ socket' = socket \cup {c}
    /\ UNCHANGED <<taken, once, closer>>

(* The select sends: the slot is taken and the connection is the server's. *)
TakeSlot(c) ==
    /\ conn[c] = "pending" /\ ConnRoom
    /\ conn' = [conn EXCEPT ![c] = "accepted"]
    /\ taken' = taken + 1
    /\ UNCHANGED <<socket, once, closer>>

(* The select's default: the rejection is counted, the descriptor is still *)
(* held.                                                                   *)
Shed(c) ==
    /\ conn[c] = "pending" /\ ~ConnRoom
    /\ conn' = [conn EXCEPT ![c] = "shedding"]
    /\ UNCHANGED <<socket, taken, once, closer>>

\* Mutant of CloseShed: the rejected connection is never closed.
CloseShed_Leak(c) ==
    /\ conn[c] = "shedding"
    /\ conn' = [conn EXCEPT ![c] = "shed"]
    /\ UNCHANGED <<socket, taken, once, closer>>

(* c.Close(), and the loop goes round. *)
CloseShed(c) ==
    /\ conn[c] = "shedding"
    /\ conn' = [conn EXCEPT ![c] = "shed"]
    /\ socket' = socket \ {c}
    /\ UNCHANGED <<taken, once, closer>>

(* Close: the descriptor first. *)
CloseSocket(c, k) ==
    /\ conn[c] = "accepted" /\ closer[c][k] = "none"
    /\ socket' = socket \ {c}
    /\ closer' = [closer EXCEPT ![c][k] = "releases"]
    /\ UNCHANGED <<conn, taken, once>>

\* Mutant of Release: without the once, a second Close receives again.
Release_Twice(c, k) ==
    /\ closer[c][k] = "releases"
    /\ taken > 0
    /\ taken' = taken - 1
    /\ once' = once \cup {c}
    /\ closer' = [closer EXCEPT ![c][k] = "returned"]
    /\ UNCHANGED <<conn, socket>>

(* once.Do(release): the first one receives from the channel, the others   *)
(* return when it has.                                                     *)
Release(c, k) ==
    /\ closer[c][k] = "releases"
    /\ \/ c \notin once /\ taken > 0 /\ taken' = taken - 1
       \/ c \in once /\ UNCHANGED taken
    /\ once' = once \cup {c}
    /\ closer' = [closer EXCEPT ![c][k] = "returned"]
    /\ UNCHANGED <<conn, socket>>

(* The next client.  A closer that has begun has returned by then. *)
Dial(c) ==
    /\ \/ conn[c] = "shed"
       \/ conn[c] = "accepted" /\ c \in once
          /\ \A k \in Closers : closer[c][k] # "releases"
    /\ conn' = [conn EXCEPT ![c] = "backlog"]
    /\ once' = once \ {c}
    /\ closer' = [closer EXCEPT ![c] = NoCloser]
    /\ UNCHANGED <<socket, taken>>

-----------------------------------------------------------------------------

ConnNext == \E c \in Conns :
    \/ AcceptFd(c) \/ TakeSlot(c) \/ Shed(c) \/ CloseShed(c) \/ Dial(c)
    \/ \E k \in Closers : CloseSocket(c, k) \/ Release(c, k)

ConnSpec == ConnInit /\ [][ConnNext]_connVars

-----------------------------------------------------------------------------

ConnHolders == {c \in Conns : conn[c] = "accepted" /\ c \notin once}

(***************************************************************************)
(* The channel holds one slot per connection not given back, whoever       *)
(* closes it and how often: a Close never waits on an empty channel, nor   *)
(* takes the slot of another connection ("the second Close blocks          *)
(* forever", limitConn.Close).  A descriptor belongs to the holder of a    *)
(* slot or to the one connection in the Accept loop's hand, so the process *)
(* holds at most MaxConns + 1 of this listener: one more than the cap,     *)
(* from the kernel's accept until the rejected connection is closed.       *)
(***************************************************************************)
DescriptorsBounded ==
    /\ taken = Cardinality(ConnHolders)
    /\ socket \subseteq ConnHolders \cup InHand
    /\ Cardinality(socket) <= MaxConns + 1

(***************************************************************************)
(* The cap is the control Slots promises: a connection is turned away only *)
(* when MaxConns others hold a slot.                                       *)
(***************************************************************************)
ConnSlots == INSTANCE Slots WITH
    Clients <- Conns,
    Size <- MaxConns,
    turn <- [c \in Conns |-> IF c \in ConnHolders THEN "in"
                             ELSE IF conn[c] \in {"shedding", "shed"}
                             THEN "refused"
                             ELSE "out"]
ConnRefinesSlots == ConnSlots!Spec

=============================================================================
