------------------------------ MODULE StarComm ------------------------------
(***************************************************************************)
(* The communicator of mpi.rs: Size ranks, a stream between rank 0 and     *)
(* every other rank, and collective calls made of frames sent along them.  *)
(*                                                                         *)
(* A collective call of a rank is a plan: the sequence of its blocking     *)
(* steps in program order.  The module gives the plans and what one step   *)
(* does; the state machine that runs them is in CollectiveFile.            *)
(***************************************************************************)
EXTENDS Integers, Sequences

CONSTANTS
    Size,      \* number of ranks
    Buffered   \* a send returns before its frame is read (small frames do)

ASSUME CommAssumption == Size \in Nat \ {0} /\ Buffered \in BOOLEAN

Rank == 0..(Size - 1)
Leaf == 1..(Size - 1)
Streams == ({0} \X Leaf) \cup (Leaf \X {0})

VARIABLES
    stream,   \* frames under way, by sender and receiver; a frame is a
              \* sequence of values
    todo,     \* per rank, what is left of the plan it is in
    got,      \* per rank, the values this call has received
    alive     \* per rank, whether its end of the streams is open

commVars == <<stream, todo, got, alive>>

-----------------------------------------------------------------------------
(* Plans.  What a send carries: nothing, the rank's own value, its own     *)
(* value with all it has received, or what it has received.                *)

Send(to, what) == [do |-> "send", peer |-> to, what |-> what]
Recv(from) == [do |-> "recv", peer |-> from]
Accept == [do |-> "accept"]
Drain(to) == [do |-> "drain", peer |-> to]
Local(what) == [do |-> "local", what |-> what]

RecvFromAll == [r \in Leaf |-> Recv(r)]
SendToAll(what) == [r \in Leaf |-> Send(r, what)]

(* Comm::init_tcp: rank 0 takes the others in the order they come and      *)
(* confirms when all are there.                                            *)
Rendezvous(r) ==
    IF r = 0 THEN [i \in Leaf |-> Accept] \o SendToAll("nothing")
    ELSE <<Send(0, "own"), Recv(0)>>

(* A faulty barrier: each rank is released as soon as it has come. *)
BarrierPairwise(r) ==
    IF r = 0 THEN [i \in 1..2 * (Size - 1) |->
                     IF i % 2 = 1 THEN Recv((i + 1) \div 2) ELSE Send(i \div 2, "nothing")]
    ELSE <<Send(0, "nothing"), Recv(0)>>

(* Comm::barrier.                                                          *)
Barrier(r) ==
    IF r = 0 THEN RecvFromAll \o SendToAll("nothing")
    ELSE <<Send(0, "nothing"), Recv(0)>>

Relay(r, root, what) ==
    IF r = 0 THEN (IF root = 0 THEN <<>> ELSE <<Recv(root)>>) \o SendToAll(what)
    ELSE (IF r = root THEN <<Send(0, "own")>> ELSE <<>>) \o <<Recv(0)>>

Bcast(r, root) == Relay(r, root, IF root = 0 THEN "own" ELSE "received")

Gather(r, root) ==
    IF r = 0 THEN RecvFromAll \o (IF root = 0 THEN <<>> ELSE <<Send(root, "all")>>)
    ELSE <<Send(0, "own")>> \o (IF r = root THEN <<Recv(0)>> ELSE <<>>)

Allgather(r) == Gather(r, 0) \o Relay(r, 0, "all")

-----------------------------------------------------------------------------
(* Steps *)

At(r, do) == alive[r] /\ todo[r] # <<>> /\ Head(todo[r]).do = do
Advance(r) == todo' = [todo EXCEPT ![r] = Tail(@)]

Content(r, own, what) ==
    CASE what = "nothing" -> <<>>
      [] what = "own" -> <<own>>
      [] what = "all" -> <<own>> \o got[r]
      [] what = "received" -> got[r]

(* send_frame: write_all returns when the frame is in the buffers of the   *)
(* sockets; one that does not fit has to be read first.                    *)
DoSend(r, own) ==
    /\ At(r, "send")
    /\ LET to == Head(todo[r]).peer
       IN  /\ stream' = [stream EXCEPT ![<<r, to>>] =
                           Append(@, Content(r, own, Head(todo[r]).what))]
           /\ todo' = [todo EXCEPT ![r] = (IF Buffered THEN <<>> ELSE <<Drain(to)>>) \o Tail(@)]
    /\ UNCHANGED <<got, alive>>

DoDrain(r) ==
    /\ At(r, "drain") /\ stream[<<r, Head(todo[r]).peer>>] = <<>>
    /\ Advance(r)
    /\ UNCHANGED <<stream, got, alive>>

Take(r, from) ==
    /\ stream[<<from, r>>] # <<>>
    /\ got' = [got EXCEPT ![r] = @ \o Head(stream[<<from, r>>])]
    /\ stream' = [stream EXCEPT ![<<from, r>>] = Tail(@)]
    /\ Advance(r)
    /\ UNCHANGED alive

(* A faulty recv: rank 0 reads whichever stream has a frame. *)
DoRecvAny(r) == At(r, "recv") /\ \E q \in Rank : <<q, r>> \in Streams /\ Take(r, q)

DoRecv(r) == At(r, "recv") /\ Take(r, Head(todo[r]).peer)

DoAccept(r) == At(r, "accept") /\ \E q \in Leaf : Take(r, q)

(* A faulty read: the end of the stream is not noticed. *)
BrokenUnnoticed(r) ==
    /\ alive[r] /\ todo[r] # <<>>
    /\ Head(todo[r]).do \in {"send", "drain"}
    /\ ~alive[Head(todo[r]).peer]

(* A step whose peer has closed its end: what is in the buffers may be     *)
(* read, or lost with an error.                                            *)
Broken(r) ==
    /\ alive[r] /\ todo[r] # <<>>
    /\ Head(todo[r]).do \in {"send", "drain", "recv"}
    /\ ~alive[Head(todo[r]).peer]
=============================================================================
