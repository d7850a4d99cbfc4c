------------------------------- MODULE Servers -------------------------------
(* The servers of "5. ...", one of which runs: the reactor as echo or HTTP *)
(* server, the io_uring server, or one of the poll and epoll loops.  The   *)
(* variables of the others keep their initial values.                      *)
EXTENDS Reactor, UringServer, PollServers

Reactors == program \in {"echo", "http"}
Loops == program \in {"poll", "epoll"}

ServersInit == SocketsInit /\ ReactorInit /\ UringInit /\ PollInit

ServersNext ==
  \/ Reactors /\ ReactorNext /\ UNCHANGED <<uringVars, pollVars>>
  \/ program = "uring" /\ UringNext /\ UNCHANGED <<reactorVars, pollVars>>
  \/ Loops /\ PollNext /\ UNCHANGED <<reactorVars, uringVars>>

serverVars == <<socketVars, reactorVars, uringVars, pollVars>>

ServersSpec == ServersInit /\ [][ServersNext]_serverVars

\* The bookkeeping of descriptors (callback and epoll interest, operations
\* of the ring, entries of poll) agrees with what is open, whatever
\* connects, closes and is reused within one batch.
DescriptorsAgree ==
  /\ Reactors => CallbackMatchesInterest
  /\ program = "uring" => OneOperation
  /\ Loops => WatchedAreOpen

\* A client is answered with its own bytes although slots, descriptors and
\* buffers are used by one connection after another.
OwnAnswer ==
  /\ Reactors => AnswersFromOwnInput
  /\ program = "uring" => OwnBytesBack

\* What a client that stays has sent is served, unless the program ends.
InputServed == (Reactors => EchoArrives) /\ (Loops => InputIsServed)
=============================================================================
