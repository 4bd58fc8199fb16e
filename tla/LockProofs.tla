----------------------------- MODULE LockProofs -----------------------------
(***************************************************************************)
(* The two promises of the quorum lock, proved for any number of nodes and *)
(* clients, any lease, drift allowance and number of attempts.             *)
(*                                                                         *)
(* Mutual exclusion: while a handle reports time left, a majority of the   *)
(* nodes stores its value under a TTL that outlives the handle by at least *)
(* the skew, because the TTL was started after the round began and the     *)
(* handle's own lease gives the drift allowance away; nothing but the      *)
(* holder's own release takes the value off, and that is not sent before   *)
(* the handle is dead.  Two majorities share a node.                       *)
(*                                                                         *)
(* Tokens: a token is handed out only once a majority's counters have      *)
(* reached it, and counters never fall, so a later claim draws a larger    *)
(* one on the node the two majorities share.                               *)
(***************************************************************************)
EXTENDS Redlock, TLAPS

\* The phases in which a client's value must stay on the nodes.
Active == {"claiming", "publishing", "held", "extending"}
Phases == Active \cup {"idle", "undoing", "dropping", "releasing"}

Commands == [op : {"acquire", "bump", "release", "extend"}, value : Client \X Nat, token : Int]

\* The lock clock at which a claim made in the round under way may be gone.
Lease(c) == start[c] + TTL - Skew

\* The nodes that keep c's value until t.
Grip(c, t) == {n \in Node : lock[n] = value(c) /\ until[n] >= t + Skew}

Majority(S) == Cardinality(S) >= quorum

TypeInv ==
    /\ now \in Nat
    /\ DOMAIN lock = Node /\ until \in [Node -> Nat] /\ fence \in [Node -> Nat]
    /\ wire \in [Client -> [Node -> Seq(Commands)]]
    /\ votes \in [Client -> [Node -> Int]]
    /\ pc \in [Client -> Phases]
    /\ tries \in [Client -> 0 .. MaxTries]
    /\ start \in [Client -> Nat]
    /\ token \in [Client -> Int] /\ expiry \in [Client -> Int]
    /\ live \in [Client -> BOOLEAN]
    /\ issued \in Seq(Int) /\ floor \in [Client -> SUBSET Int]

\* What c has written names an attempt of its own, and releases only one
\* that is over.
SoundCommand(c, cmd) ==
    /\ \E k \in 1 .. tries[c] : cmd.value = <<c, k>>
    /\ cmd.op = "release" /\ cmd.value = value(c) => pc[c] \notin Active

\* The command of the round under way.
Asked(c, cmd) ==
    /\ cmd.value = value(c)
    /\ pc[c] = "claiming" => cmd.op = "acquire"
    /\ pc[c] = "publishing" => cmd.op = "bump" /\ cmd.token = token[c]
    /\ pc[c] = "extending" => cmd.op = "extend"

Wired(c, n) ==
    /\ \A i \in 1 .. Len(wire[c][n]) : SoundCommand(c, wire[c][n][i])
    /\ votes[c][n] = Waiting =>
          /\ wire[c][n] # <<>>
          /\ Asked(c, wire[c][n][Len(wire[c][n])])

\* What a vote of the round under way stands for.
Voted(c, n) ==
    /\ pc[c] = "claiming" /\ votes[c][n] > 0 /\ now < Lease(c) => n \in Grip(c, Lease(c))
    /\ pc[c] = "publishing" /\ votes[c][n] = 1 => fence[n] >= token[c]
    /\ pc[c] = "extending" /\ votes[c][n] = 1 /\ now < Lease(c) => n \in Grip(c, Lease(c))

\* A claim that is being published, or is held, is on a majority.
Gripped(c) ==
    /\ pc[c] = "publishing" /\ now < Lease(c) => Majority(Grip(c, Lease(c)))
    /\ pc[c] \in {"held", "extending"} /\ now < expiry[c] => Majority(Grip(c, expiry[c]))

\* The nodes that answered c, or would, with a token above t.
Above(c, t) == {n \in Node : fence[n] >= t /\ (votes[c][n] > 0 => votes[c][n] > t)}

Floored(c) ==
    \A t \in floor[c] :
        /\ pc[c] = "claiming" => Majority(Above(c, t))
        /\ pc[c] \in {"publishing", "held", "extending"} => token[c] > t

ClientInv(c) ==
    /\ start[c] <= now
    /\ pc[c] \in Active => tries[c] # 0
    /\ live[c] => pc[c] \in {"held", "extending", "dropping"}
    /\ \A n \in Node : Wired(c, n) /\ Voted(c, n)
    /\ Gripped(c)
    /\ Floored(c)

Reached(t) == {n \in Node : fence[n] >= t}

\* The inductive invariant.
LockInv ==
    /\ TypeInv
    /\ \A n \in Node : until[n] <= now + TTL
    /\ \A i \in 1 .. Len(issued) : Majority(Reached(issued[i]))
    /\ \A c \in Client : ClientInv(c)

-----------------------------------------------------------------------------
(* Majorities.                                                             *)

\* What the proofs of the steps know of majorities: they grow and they meet.
QuorumFacts ==
    \A S, T \in SUBSET Node :
        /\ S \subseteq T /\ Majority(S) => Majority(T)
        /\ Majority(S) /\ Majority(T) => \E n \in Node : n \in S /\ n \in T

\* More nodes than a majority are one.
LEMMA MajorityGrows ==
    ASSUME QuorumFacts, NEW S, NEW T, S \subseteq T, T \subseteq Node, Majority(S)
    PROVE  Majority(T)
  BY Zenon DEF QuorumFacts

\* Two majorities share a node.
LEMMA MajoritiesMeet ==
    ASSUME QuorumFacts, NEW S, NEW T, S \subseteq Node, T \subseteq Node, Majority(S), Majority(T)
    PROVE  \E n \in Node : n \in S /\ n \in T
  BY Zenon DEF QuorumFacts

-----------------------------------------------------------------------------
(* Steps that leave a client where it is.                                  *)

\* Nothing of c's own has moved.
Quiet(c) ==
    /\ pc'[c] = pc[c] /\ tries'[c] = tries[c] /\ start'[c] = start[c] /\ token'[c] = token[c]
    /\ expiry'[c] = expiry[c] /\ live'[c] = live[c] /\ floor'[c] = floor[c]

\* The clock and the counters have not fallen, and no node has let go of c's
\* value before its time.
NodesGrow(c) ==
    /\ now <= now'
    /\ \A n \in Node : fence[n] <= fence'[n]
    /\ pc[c] \in Active =>
          \A n \in Node, t \in Int : n \in Grip(c, t) /\ now' < t => n \in Grip(c, t)'

\* Instants of the lock clock are numbers.
LEMMA LeaseTyped ==
    ASSUME TypeInv, NEW c \in Client PROVE Lease(c) \in Int /\ start[c] \in Nat /\ expiry[c] \in Int
  BY RedlockAssumption DEF TypeInv, Lease

\* What a handle relies on survives a step that is not its client's.
LEMMA GrippedKept ==
    ASSUME QuorumFacts, TypeInv, TypeInv', NEW c \in Client, Quiet(c), NodesGrow(c), Gripped(c)
    PROVE  Gripped(c)'
  <1>1. Lease(c)' = Lease(c) /\ Lease(c) \in Int /\ expiry[c] \in Int /\ now \in Nat /\ now' \in Nat
    BY Zenon, LeaseTyped DEF Quiet, Lease, TypeInv
  <1>2. ASSUME NEW t \in Int, pc[c] \in Active, now' < t, Majority(Grip(c, t))
        PROVE  Majority(Grip(c, t)')
    <2>1. Grip(c, t) \subseteq Grip(c, t)' /\ Grip(c, t)' \subseteq Node
      BY Zenon, <1>2 DEF NodesGrow, Grip
    <2> QED BY Zenon, <2>1, <1>2, MajorityGrows
  <1>3. ASSUME pc[c] = "publishing", now' < Lease(c) PROVE Majority(Grip(c, Lease(c))')
    <2>1. PICK t \in Int : t = Lease(c)
      BY Zenon, <1>1
    <2>2. Majority(Grip(c, t)')
      BY <1>1, <1>2, <1>3, <2>1 DEF Gripped, Active, NodesGrow
    <2>3. Grip(c, Lease(c))' = Grip(c, t)'
      BY Zenon, <1>1, <2>1 DEF Grip
    <2> QED BY Zenon, <2>2, <2>3
  <1>4. ASSUME pc[c] \in {"held", "extending"}, now' < expiry[c] PROVE Majority(Grip(c, expiry[c])')
    <2>1. PICK t \in Int : t = expiry[c]
      BY Zenon, <1>1
    <2>2. Majority(Grip(c, t)')
      BY <1>1, <1>2, <1>4, <2>1 DEF Gripped, Active, NodesGrow
    <2>3. Grip(c, expiry[c])' = Grip(c, t)'
      BY Zenon, <1>1, <2>1 DEF Grip, Quiet
    <2> QED BY Zenon, <2>2, <2>3
  <1> QED BY Zenon, <1>1, <1>3, <1>4 DEF Gripped, Quiet, Majority

\* So does what an answer in hand stands for.
LEMMA VotedKept ==
    ASSUME TypeInv, TypeInv', NEW c \in Client, NEW n \in Node, Quiet(c), NodesGrow(c), Voted(c, n),
           votes'[c][n] \in {votes[c][n], Errored}
    PROVE  Voted(c, n)'
  <1>1. Lease(c)' = Lease(c) /\ Lease(c) \in Int /\ now \in Nat /\ now' \in Nat
    BY Zenon, LeaseTyped DEF Quiet, Lease, TypeInv
  <1>2. PICK t \in Int : t = Lease(c)
    BY Zenon, <1>1
  <1>3. Grip(c, Lease(c))' = Grip(c, t)'
    BY Zenon, <1>1, <1>2 DEF Grip
  <1>4. n \in Grip(c, t) /\ now' < t /\ pc[c] \in Active => n \in Grip(c, t)'
    BY Zenon DEF NodesGrow
  <1>5. fence[n] \in Nat /\ fence'[n] \in Nat /\ fence[n] <= fence'[n] /\ token[c] \in Int /\ now <= now'
    BY Zenon DEF TypeInv, NodesGrow
  <1>6. CASE votes'[c][n] = Errored
    BY <1>6 DEF Voted, Errored
  <1>7. CASE votes'[c][n] = votes[c][n]
    BY <1>1, <1>2, <1>3, <1>4, <1>5, <1>7 DEF Voted, Quiet, Active
  <1> QED BY Zenon, <1>6, <1>7

\* So does the bound on the token an attempt will draw.
LEMMA FlooredKept ==
    ASSUME QuorumFacts, TypeInv, TypeInv', NEW c \in Client, Quiet(c), NodesGrow(c), Floored(c),
           pc[c] = "claiming" =>
              \A n \in Node : \/ votes'[c][n] \in {votes[c][n], Errored}
                             \/ votes'[c][n] > fence[n] \/ votes'[c][n] <= 0
    PROVE  Floored(c)'
  <1> SUFFICES ASSUME NEW t \in floor[c]
               PROVE  /\ pc[c] = "claiming" => Majority(Above(c, t)')
                      /\ pc[c] \in {"publishing", "held", "extending"} => token[c] > t
    BY Zenon DEF Floored, Quiet, Majority
  <1>1. t \in Int
    BY Zenon DEF TypeInv
  <1>2. ASSUME pc[c] = "claiming" PROVE Above(c, t) \subseteq Above(c, t)' /\ Above(c, t)' \subseteq Node
    <2> SUFFICES ASSUME NEW n \in Above(c, t) PROVE n \in Above(c, t)'
      BY Zenon DEF Above
    <2>1. /\ n \in Node /\ fence[n] >= t /\ (votes[c][n] > 0 => votes[c][n] > t)
          /\ fence[n] \in Nat /\ fence'[n] \in Nat /\ fence[n] <= fence'[n]
          /\ votes[c][n] \in Int /\ votes'[c][n] \in Int
      BY DEF Above, TypeInv, NodesGrow
    <2>2. votes'[c][n] > 0 => votes'[c][n] > t
      BY <1>1, <1>2, <2>1 DEF Errored
    <2> QED BY <1>1, <2>1, <2>2 DEF Above
  <1> QED BY Zenon, <1>2, MajorityGrows DEF Floored

\* The commands left are among those that were there, and a round still
\* waiting for a node still has its command on the way.
LEMMA WiredKept ==
    ASSUME NEW c \in Client, NEW n \in Node, Quiet(c), Wired(c, n),
           wire'[c][n] = wire[c][n], votes'[c][n] \in {votes[c][n], Errored}
    PROVE  Wired(c, n)'
  <1>1. /\ \A x : SoundCommand(c, x) => SoundCommand(c, x)'
        /\ \A x : Asked(c, x) => Asked(c, x)'
    BY DEF Quiet, SoundCommand, Asked, value
  <1>2. votes'[c][n] = Waiting => votes[c][n] = Waiting
    BY DEF Errored, Waiting
  <1> QED BY <1>1, <1>2 DEF Wired

\* So does all of a client's invariant.
LEMMA ClientKept ==
    ASSUME QuorumFacts, TypeInv, TypeInv', NEW c \in Client, ClientInv(c), Quiet(c), NodesGrow(c),
           wire'[c] = wire[c], votes'[c] = votes[c]
    PROVE  ClientInv(c)'
  <1>1. \A n \in Node : Wired(c, n)' /\ Voted(c, n)'
    BY Zenon, WiredKept, VotedKept DEF ClientInv
  <1>2. Gripped(c)' /\ Floored(c)'
    BY Zenon, GrippedKept, FlooredKept DEF ClientInv
  <1>3. start'[c] <= now' /\ (pc'[c] \in Active => tries'[c] # 0) /\ (live'[c] => pc'[c] \in {"held", "extending", "dropping"})
    BY DEF ClientInv, Quiet, NodesGrow, TypeInv
  <1> QED BY Zenon, <1>1, <1>2, <1>3 DEF ClientInv

-----------------------------------------------------------------------------
(* The scripts.                                                            *)

\* A script leaves numbers behind.
LEMMA ScriptTyped ==
    ASSUME TypeInv, NEW n \in Node, NEW cmd \in Commands
    PROVE  /\ Script(n, cmd).until \in Nat /\ Script(n, cmd).fence \in Nat
           /\ Script(n, cmd).reply \in Int
  <1>1. until[n] \in Nat /\ fence[n] \in Nat /\ now + TTL \in Nat /\ cmd.token \in Int
    BY RedlockAssumption DEF TypeInv, Commands
  <1>2. cmd.op \in {"acquire", "bump", "release", "extend"}
    BY Zenon DEF Commands
  <1>3. CASE cmd.op = "acquire"
    BY <1>1, <1>3 DEF Script, ACQUIRE
  <1>4. CASE cmd.op = "bump"
    BY <1>1, <1>4 DEF Script, BUMP_FENCE
  <1>5. CASE cmd.op = "release"
    BY <1>1, <1>5 DEF Script, RELEASE
  <1>6. CASE cmd.op = "extend"
    BY <1>1, <1>6 DEF Script, EXTEND
  <1> QED BY Zenon, <1>2, <1>3, <1>4, <1>5, <1>6

\* Counters only rise, a TTL only grows while its value stays, and nothing
\* but a release of its own takes a value off before its time.
LEMMA ScriptKeeps ==
    ASSUME LockInv, NEW n \in Node, NEW d \in Client, NEW cmd \in Commands, SoundCommand(d, cmd)
    PROVE  /\ Script(n, cmd).until <= now + TTL
           /\ Script(n, cmd).fence >= fence[n]
           /\ \A c \in Client : pc[c] \in Active /\ lock[n] = value(c) =>
                 Script(n, cmd).lock = value(c) /\ Script(n, cmd).until >= until[n]
  <1>1. /\ until[n] \in Nat /\ fence[n] \in Nat /\ now \in Nat /\ TTL \in Nat /\ cmd.token \in Int
        /\ until[n] <= now + TTL
    BY Zenon, RedlockAssumption DEF LockInv, TypeInv, Commands
  <1>2. cmd.op \in {"acquire", "bump", "release", "extend"}
    BY Zenon DEF Commands
  <1>3. CASE cmd.op = "acquire"
    <2>1. ASSUME NEW c \in Client, pc[c] \in Active, lock[n] = value(c) PROVE lock[n] # NoValue
      <3>1. tries[c] \in 0 .. MaxTries
        BY Zenon DEF LockInv, TypeInv
      <3>2. tries[c] # 0
        BY Zenon, <2>1 DEF LockInv, ClientInv
      <3> QED BY <3>1, <3>2, <2>1, RedlockAssumption DEF value
    <2> QED BY <1>1, <1>3, <2>1 DEF Script, ACQUIRE
  <1>4. CASE cmd.op = "bump"
    BY <1>1, <1>4 DEF Script, BUMP_FENCE
  <1>5. CASE cmd.op = "release"
    <2>1. ASSUME NEW c \in Client, pc[c] \in Active, lock[n] = value(c) PROVE lock[n] # cmd.value
      BY <1>5, <2>1 DEF SoundCommand, value
    <2> QED BY <1>1, <1>5, <2>1 DEF Script, RELEASE
  <1>6. CASE cmd.op = "extend"
    BY <1>1, <1>6 DEF Script, EXTEND
  <1> QED BY Zenon, <1>2, <1>3, <1>4, <1>5, <1>6

\* What an answer that counts stands for.
LEMMA ScriptAnswers ==
    ASSUME TypeInv, NEW n \in Node, NEW cmd \in Commands
    PROVE  /\ cmd.op = "acquire" /\ Script(n, cmd).reply > 0 =>
                 /\ Script(n, cmd).lock = cmd.value /\ Script(n, cmd).until = now + TTL
                 /\ Script(n, cmd).reply > fence[n]
           /\ cmd.op = "bump" => Script(n, cmd).fence >= cmd.token
           /\ cmd.op = "extend" /\ Script(n, cmd).reply = 1 =>
                 Script(n, cmd).lock = cmd.value /\ Script(n, cmd).until = now + TTL
  <1>1. fence[n] \in Nat /\ cmd.token \in Int
    BY Zenon DEF TypeInv, Commands
  <1>2. CASE cmd.op = "acquire"
    BY <1>1, <1>2 DEF Script, ACQUIRE
  <1>3. CASE cmd.op = "bump"
    BY <1>1, <1>3 DEF Script, BUMP_FENCE
  <1>4. CASE cmd.op = "extend"
    BY <1>1, <1>4 DEF Script, EXTEND
  <1> QED BY Zenon, <1>2, <1>3, <1>4

-----------------------------------------------------------------------------
(* Rounds begin and end.                                                   *)

\* A round puts its command last on every connection and waits for all nodes.
LEMMA Sends ==
    ASSUME TypeInv, NEW c \in Client, NEW cmd \in Commands, onEveryNode(c, cmd)
    PROVE  /\ wire' \in [Client -> [Node -> Seq(Commands)]]
           /\ votes' \in [Client -> [Node -> Int]]
           /\ \A n \in Node : wire'[c][n] = Append(wire[c][n], cmd) /\ votes'[c][n] = Waiting
           /\ \A d \in Client : d # c => wire'[d] = wire[d] /\ votes'[d] = votes[d]
  <1>1. /\ wire \in [Client -> [Node -> Seq(Commands)]] /\ votes \in [Client -> [Node -> Int]]
        /\ Waiting \in Int
    BY DEF TypeInv, Waiting
  <1>2. /\ wire' = [wire EXCEPT ![c] = [n \in Node |-> Append(wire[c][n], cmd)]]
        /\ votes' = [votes EXCEPT ![c] = [n \in Node |-> Waiting]]
    BY Zenon DEF onEveryNode
  <1>3. \A n \in Node : Append(wire[c][n], cmd) \in Seq(Commands)
    BY <1>1
  <1> QED BY Zenon, <1>1, <1>2, <1>3

\* A round that returns forgets its answers and its start.
LEMMA Ends ==
    ASSUME TypeInv, NEW c \in Client, NEW next \in Phases, Returns(c, next)
    PROVE  /\ votes' \in [Client -> [Node -> Int]] /\ start' \in [Client -> Nat]
           /\ pc' \in [Client -> Phases]
           /\ pc'[c] = next /\ start'[c] = 0 /\ \A n \in Node : votes'[c][n] = Errored
           /\ \A d \in Client : d # c => votes'[d] = votes[d] /\ start'[d] = start[d] /\ pc'[d] = pc[d]
  BY DEF TypeInv, Returns, Goto, Errored

\* Commands carry the client and the number of its attempt.
LEMMA ValueTyped ==
    ASSUME TypeInv, NEW c \in Client, NEW op \in {"acquire", "bump", "release", "extend"}, NEW t \in Int
    PROVE  Command(op, value(c), t) \in Commands /\ Command(op, <<c, tries[c] + 1>>, t) \in Commands
  BY RedlockAssumption DEF TypeInv, Command, Commands, value

\* Every step keeps the types.
LEMMA TypeStep == TypeInv /\ [Next]_vars => TypeInv'
  <1> SUFFICES ASSUME TypeInv, [Next]_vars PROVE TypeInv'
    BY Zenon
  <1> USE DEF nodeVars, handleVars
  <1>r. ASSUME NEW c \in Client, releaseEverywhere(c)
        PROVE  wire' \in [Client -> [Node -> Seq(Commands)]] /\ votes' \in [Client -> [Node -> Int]]
    <2>1. Command("release", value(c), 0) \in Commands
      BY RedlockAssumption DEF TypeInv, Command, Commands, value
    <2> QED BY Zenon, <1>r, <2>1, Sends DEF releaseEverywhere
  <1>g. ASSUME NEW c \in Client, NEW next \in Phases, Goto(c, next) PROVE pc' \in [Client -> Phases]
    BY Zenon, <1>g DEF TypeInv, Goto
  <1>e. ASSUME NEW c \in Client, NEW next \in Phases, Returns(c, next)
        PROVE  /\ votes' \in [Client -> [Node -> Int]] /\ start' \in [Client -> Nat]
               /\ pc' \in [Client -> Phases]
    BY Zenon, <1>e, Ends
  <1>v. \A c \in Client : now + validityFrom(c) \in Int
    BY RedlockAssumption DEF TypeInv, validityFrom
  <1>p. /\ "idle" \in Phases /\ "claiming" \in Phases /\ "publishing" \in Phases /\ "held" \in Phases
        /\ "undoing" \in Phases /\ "extending" \in Phases /\ "dropping" \in Phases /\ "releasing" \in Phases
    BY Zenon DEF Phases, Active
  <1>1. CASE Tick
    BY <1>1 DEF Tick, TypeInv
  <1>2. ASSUME NEW n \in Node, KeyExpires(n) PROVE TypeInv'
    BY Zenon, <1>2 DEF KeyExpires, TypeInv
  <1>3. ASSUME NEW c \in Client, NEW n \in Node, NEW heard \in BOOLEAN, NodeRuns(c, n, heard) PROVE TypeInv'
    <2> DEFINE cmd == Head(wire[c][n])
    <2>1. wire[c][n] \in Seq(Commands) /\ wire[c][n] # <<>>
      BY Zenon, <1>3 DEF TypeInv, NodeRuns
    <2>2. cmd \in Commands /\ Tail(wire[c][n]) \in Seq(Commands)
      BY <2>1
    <2> HIDE DEF cmd
    <2>3. /\ Script(n, cmd).until \in Nat /\ Script(n, cmd).fence \in Nat /\ Script(n, cmd).reply \in Int
      BY Zenon, <2>2, ScriptTyped
    <2>4. /\ lock' = [lock EXCEPT ![n] = Script(n, cmd).lock]
          /\ until' = [until EXCEPT ![n] = Script(n, cmd).until]
          /\ fence' = [fence EXCEPT ![n] = Script(n, cmd).fence]
          /\ \/ votes' = votes
             \/ votes' = [votes EXCEPT ![c][n] = IF heard THEN Script(n, cmd).reply ELSE Errored]
          /\ wire' = [wire EXCEPT ![c][n] = Tail(wire[c][n])]
          /\ UNCHANGED <<now, pc, tries, start, handleVars, issued, floor>>
      BY Zenon, <1>3 DEF NodeRuns, cmd
    <2>5. wire' \in [Client -> [Node -> Seq(Commands)]]
      BY Zenon, <2>2, <2>4 DEF TypeInv
    <2>6. votes' \in [Client -> [Node -> Int]]
      <3>1. PICK v \in Int : v = IF heard THEN Script(n, cmd).reply ELSE Errored
        BY <2>3 DEF Errored
      <3>2. votes' = votes \/ votes' = [votes EXCEPT ![c][n] = v]
        BY Zenon, <2>4, <3>1
      <3>3. votes \in [Client -> [Node -> Int]]
        BY Zenon DEF TypeInv
      <3> QED BY <3>2, <3>3
    <2>7. DOMAIN lock' = Node /\ until' \in [Node -> Nat] /\ fence' \in [Node -> Nat]
      BY Zenon, <2>3, <2>4 DEF TypeInv
    <2> QED BY Zenon, <2>4, <2>5, <2>6, <2>7 DEF TypeInv
  <1>4. ASSUME NEW c \in Client, NEW n \in Node, TimesOut(c, n) PROVE TypeInv'
    BY <1>4 DEF TimesOut, TypeInv, Errored
  <1>5. ASSUME NEW c \in Client, NEW n \in Node, Disconnects(c, n) PROVE TypeInv'
    <2>1. wire' \in [Client -> [Node -> Seq(Commands)]]
      BY <1>5 DEF Disconnects, TypeInv
    <2>2. votes' \in [Client -> [Node -> Int]]
      BY <1>5 DEF Disconnects, TypeInv, Errored
    <2> QED BY Zenon, <1>5, <2>1, <2>2 DEF Disconnects, TypeInv
  <1>6. ASSUME NEW c \in Client, attempt(c) PROVE TypeInv'
    <2>1. Command("acquire", <<c, tries[c] + 1>>, 0) \in Commands
      BY ValueTyped
    <2>2. wire' \in [Client -> [Node -> Seq(Commands)]] /\ votes' \in [Client -> [Node -> Int]]
      BY Zenon, <1>6, <2>1, Sends DEF attempt
    <2>3. tries' \in [Client -> 0 .. MaxTries] /\ start' \in [Client -> Nat]
      BY <1>6, RedlockAssumption DEF attempt, TypeInv
    <2>4. floor' \in [Client -> SUBSET Int]
      BY <1>6 DEF attempt, TypeInv
    <2>5. pc' \in [Client -> Phases]
      BY Zenon, <1>6, <1>g, <1>p DEF attempt
    <2> QED BY Zenon, <1>6, <2>2, <2>3, <2>4, <2>5 DEF attempt, TypeInv
  <1>7. ASSUME NEW c \in Client, ClaimFails(c) \/ ClaimUnsafe(c) \/ PublishFails(c) PROVE TypeInv'
    <2>1. /\ releaseEverywhere(c) /\ Goto(c, "undoing")
          /\ UNCHANGED <<now, nodeVars, tries, start, handleVars, issued, floor, faults>>
      BY Zenon, <1>7 DEF ClaimFails, ClaimUnsafe, PublishFails
    <2> QED BY Zenon, <2>1, <1>r, <1>g, <1>p DEF TypeInv
  <1>8. ASSUME NEW c \in Client, ClaimSucceeds(c) PROVE TypeInv'
    <2>1. PICK t \in {votes[c][n] : n \in claimed(c)} :
            token' = [token EXCEPT ![c] = t] /\ onEveryNode(c, Command("bump", value(c), t))
      BY Zenon, <1>8 DEF ClaimSucceeds
    <2>2. t \in Int
      BY DEF claimed, TypeInv
    <2>3. Command("bump", value(c), t) \in Commands
      BY Zenon, <2>2, ValueTyped
    <2>4. wire' \in [Client -> [Node -> Seq(Commands)]] /\ votes' \in [Client -> [Node -> Int]]
      BY Zenon, <2>1, <2>3, Sends
    <2>5. token' \in [Client -> Int]
      BY Zenon, <2>1, <2>2 DEF TypeInv
    <2> QED BY Zenon, <1>8, <2>4, <2>5, <1>g, <1>p DEF ClaimSucceeds, TypeInv
  <1>9. ASSUME NEW c \in Client, PublishSucceeds(c) PROVE TypeInv'
    <2>1. issued' \in Seq(Int)
      BY <1>9 DEF PublishSucceeds, TypeInv
    <2>2. expiry' \in [Client -> Int] /\ live' \in [Client -> BOOLEAN]
      BY Zenon, <1>9, <1>v DEF PublishSucceeds, TypeInv
    <2> QED BY Zenon, <1>9, <2>1, <2>2, <1>e, <1>p DEF PublishSucceeds, TypeInv
  <1>10. ASSUME NEW c \in Client, UndoDone(c) PROVE TypeInv'
    BY Zenon, <1>10, <1>e, <1>p DEF UndoDone, TypeInv
  <1>11. ASSUME NEW c \in Client, extend(c) PROVE TypeInv'
    <2>1. Command("extend", value(c), 0) \in Commands
      BY RedlockAssumption DEF TypeInv, Command, Commands, value
    <2>2. wire' \in [Client -> [Node -> Seq(Commands)]] /\ votes' \in [Client -> [Node -> Int]]
      BY Zenon, <1>11, <2>1, Sends DEF extend
    <2> QED BY Zenon, <1>11, <2>2, <1>g, <1>p DEF extend, TypeInv
  <1>12. ASSUME NEW c \in Client, ExtendSucceeds(c) PROVE TypeInv'
    <2>1. expiry' \in [Client -> Int]
      BY Zenon, <1>12, <1>v DEF ExtendSucceeds, TypeInv
    <2> QED BY Zenon, <1>12, <2>1, <1>e, <1>p DEF ExtendSucceeds, TypeInv
  <1>13. ASSUME NEW c \in Client, ExtendFails(c) PROVE TypeInv'
    BY Zenon, <1>13, <1>r, <1>g, <1>p DEF ExtendFails, TypeInv
  <1>14. ASSUME NEW c \in Client, DropDone(c) PROVE TypeInv'
    <2>1. expiry' \in [Client -> Int] /\ live' \in [Client -> BOOLEAN]
      BY <1>14 DEF DropDone, TypeInv
    <2> QED BY Zenon, <1>14, <2>1, <1>e, <1>p DEF DropDone, TypeInv
  <1>15. ASSUME NEW c \in Client, release(c) PROVE TypeInv'
    <2>1. live' \in [Client -> BOOLEAN]
      BY Zenon, <1>15 DEF release, TypeInv
    <2> QED BY Zenon, <1>15, <2>1, <1>r, <1>g, <1>p DEF release, TypeInv
  <1>16. ASSUME NEW c \in Client, ReleaseDone(c) PROVE TypeInv'
    <2>1. expiry' \in [Client -> Int]
      BY <1>16 DEF ReleaseDone, TypeInv
    <2> QED BY Zenon, <1>16, <2>1, <1>e, <1>p DEF ReleaseDone, TypeInv
  <1>17. CASE UNCHANGED vars
    BY Zenon, <1>17 DEF vars, TypeInv
  <1> QED
    BY Zenon, <1>1, <1>2, <1>3, <1>4, <1>5, <1>6, <1>7, <1>8, <1>9, <1>10, <1>11, <1>12, <1>13, <1>14,
       <1>15, <1>16, <1>17 DEF Next

-----------------------------------------------------------------------------
(* What a step does to the rest of the system.                             *)

\* A step that touches neither the clock nor the nodes.
LEMMA NodesStill ==
    ASSUME TypeInv, UNCHANGED <<now, lock, until, fence>>, NEW d \in Client, tries'[d] = tries[d]
    PROVE  NodesGrow(d)
  BY DEF NodesGrow, Grip, value, TypeInv

\* A step of one client leaves the others' invariants alone.
LEMMA OthersStill ==
    ASSUME QuorumFacts, LockInv, TypeInv', NEW c \in Client, UNCHANGED <<now, lock, until, fence>>,
           \A d \in Client : d # c => Quiet(d) /\ wire'[d] = wire[d] /\ votes'[d] = votes[d]
    PROVE  \A d \in Client : d # c => ClientInv(d)'
  <1> SUFFICES ASSUME NEW d \in Client, d # c PROVE ClientInv(d)'
    BY Zenon
  <1>1. NodesGrow(d)
    BY Zenon, NodesStill DEF LockInv, Quiet
  <1> QED BY Zenon, <1>1, ClientKept DEF LockInv

\* The handles' tokens stay on a majority while counters only rise.
LEMMA IssuedKept ==
    ASSUME QuorumFacts, LockInv, TypeInv', issued' = issued, \A n \in Node : fence[n] <= fence'[n]
    PROVE  (\A i \in 1 .. Len(issued) : Majority(Reached(issued[i])))'
  <1> SUFFICES ASSUME NEW i \in 1 .. Len(issued) PROVE Majority(Reached(issued[i]))'
    BY Zenon
  <1>1. PICK t \in Int : t = issued[i]
    BY DEF LockInv, TypeInv
  <1>2. Reached(t) \subseteq Reached(t)' /\ Reached(t)' \subseteq Node
    BY DEF LockInv, TypeInv, Reached
  <1>3. Majority(Reached(t))
    BY Zenon, <1>1 DEF LockInv
  <1>4. Majority(Reached(t)')
    BY Zenon, <1>2, <1>3, MajorityGrows
  <1> QED BY Zenon, <1>4, <1>1 DEF Reached, Majority

-----------------------------------------------------------------------------
(* Steps of the clock and the nodes.                                       *)

\* Time passes, and a key whose TTL is up goes.
LEMMA ClockStep ==
    ASSUME QuorumFacts, LockInv, TypeInv', Tick \/ (\E n \in Node : KeyExpires(n))
    PROVE  LockInv'
  <1> USE DEF nodeVars, handleVars
  <1>1. /\ UNCHANGED <<fence, wire, votes, pc, tries, start, token, expiry, live, issued, floor>>
        /\ now' >= now /\ now \in Nat /\ now' \in Nat /\ TTL \in Nat /\ Skew \in Nat
    BY RedlockAssumption DEF Tick, KeyExpires, LockInv, TypeInv
  <1>2. \A n \in Node : until'[n] = until[n] \/ until'[n] = 0
    BY Zenon DEF Tick, KeyExpires, LockInv, TypeInv
  <1>3. ASSUME NEW n \in Node PROVE until'[n] <= now' + TTL
    <2>1. until[n] \in Nat /\ until[n] <= now + TTL
      BY Zenon DEF LockInv, TypeInv
    <2> QED BY <1>1, <1>2, <2>1
  <1>4. ASSUME NEW c \in Client PROVE NodesGrow(c)
    <2> SUFFICES ASSUME NEW n \in Node, NEW t \in Int, n \in Grip(c, t), now' < t PROVE n \in Grip(c, t)'
      BY <1>1 DEF NodesGrow, LockInv, TypeInv
    <2>1. lock[n] = value(c) /\ until[n] >= t + Skew /\ value(c)' = value(c) /\ until[n] \in Nat
      BY Zenon, <1>1 DEF Grip, value, LockInv, TypeInv
    <2>2. CASE Tick
      BY Zenon, <2>1, <2>2 DEF Grip, Tick
    <2>3. CASE KeyExpires(n)
      BY <1>1, <2>1, <2>3 DEF KeyExpires
    <2>4. ASSUME NEW m \in Node, m # n, KeyExpires(m) PROVE lock'[n] = lock[n] /\ until'[n] = until[n]
      BY Zenon, <2>4 DEF KeyExpires, LockInv, TypeInv
    <2> QED BY Zenon, <2>1, <2>2, <2>3, <2>4 DEF Grip
  <1>5. ASSUME NEW c \in Client PROVE ClientInv(c)'
    <2>1. Quiet(c)
      BY Zenon, <1>1 DEF Quiet
    <2> QED BY Zenon, <1>1, <1>4, <2>1, ClientKept DEF LockInv
  <1>6. (\A i \in 1 .. Len(issued) : Majority(Reached(issued[i])))'
    <2>1. \A n \in Node : fence[n] <= fence'[n]
      BY <1>1 DEF LockInv, TypeInv
    <2> QED BY Zenon, <1>1, <2>1, IssuedKept
  <1> QED BY Zenon, <1>3, <1>5, <1>6 DEF LockInv

\* The round stops waiting for a node, with or without the connection.
LEMMA LossStep ==
    ASSUME QuorumFacts, LockInv, TypeInv', NEW c \in Client, NEW n \in Node, TimesOut(c, n) \/ Disconnects(c, n)
    PROVE  LockInv'
  <1> USE DEF nodeVars, handleVars
  <1>1. UNCHANGED <<now, lock, until, fence, pc, tries, start, token, expiry, live, issued, floor>>
    BY Zenon DEF TimesOut, Disconnects
  <1>2. \A d \in Client : Quiet(d) /\ NodesGrow(d)
    BY Zenon, <1>1, NodesStill DEF Quiet, LockInv
  <1>3. \A d \in Client : d # c => wire'[d] = wire[d] /\ votes'[d] = votes[d]
    BY Zenon DEF TimesOut, Disconnects, LockInv, TypeInv
  <1>4. \A m \in Node : /\ votes'[c][m] \in {votes[c][m], Errored}
                        /\ wire'[c][m] = wire[c][m] \/ (wire'[c][m] = <<>> /\ votes'[c][m] # Waiting)
    <2>1. /\ wire \in [Client -> [Node -> Seq(Commands)]] /\ votes \in [Client -> [Node -> Int]]
          /\ Waiting # Errored
      <3>1. Waiting # Errored
        BY DEF Waiting, Errored
      <3> QED BY Zenon, <3>1 DEF LockInv, TypeInv
    <2>2. CASE TimesOut(c, n)
      <3> TAKE m \in Node
      <3>1. wire' = wire /\ votes' = [votes EXCEPT ![c] = [votes[c] EXCEPT ![n] = Errored]]
        BY Zenon, <2>2 DEF TimesOut
      <3> QED BY Zenon, <2>1, <3>1
    <2>3. CASE Disconnects(c, n)
      <3> TAKE m \in Node
      <3>1. /\ wire' = [wire EXCEPT ![c] = [wire[c] EXCEPT ![n] = <<>>]]
            /\ votes' = [votes EXCEPT ![c] = [votes[c] EXCEPT ![n] =
                                 IF votes[c][n] = Waiting THEN Errored ELSE votes[c][n]]]
        BY Zenon, <2>3 DEF Disconnects
      <3>2. CASE m = n
        BY Zenon, <2>1, <3>1, <3>2
      <3>3. CASE m # n
        BY Zenon, <2>1, <3>1, <3>3
      <3> QED BY Zenon, <3>2, <3>3
    <2> QED BY Zenon, <2>2, <2>3
  <1>5. ASSUME NEW m \in Node PROVE Wired(c, m)' /\ Voted(c, m)'
    <2>1. Voted(c, m)'
      BY Zenon, <1>2, <1>4, VotedKept DEF LockInv, ClientInv
    <2>2. CASE wire'[c][m] = wire[c][m]
      BY Zenon, <2>1, <2>2, <1>2, <1>4, WiredKept DEF LockInv, ClientInv
    <2>3. CASE wire'[c][m] = <<>> /\ votes'[c][m] # Waiting
      BY <2>1, <2>3 DEF Wired
    <2> QED BY Zenon, <1>4, <2>2, <2>3
  <1>6. Gripped(c)' /\ Floored(c)'
    BY Zenon, <1>2, <1>4, GrippedKept, FlooredKept DEF LockInv, ClientInv
  <1>7. ClientInv(c)'
    BY Zenon, <1>1, <1>5, <1>6 DEF LockInv, ClientInv
  <1>8. \A d \in Client : d # c => ClientInv(d)'
    BY Zenon, <1>1, <1>2, <1>3, OthersStill
  <1>9. (\A i \in 1 .. Len(issued) : Majority(Reached(issued[i])))'
    BY Zenon, <1>1 DEF LockInv, Majority, Reached
  <1> QED BY Zenon, <1>1, <1>7, <1>8, <1>9 DEF LockInv

\* A node runs the next command of a connection; its answer is heard or lost.
LEMMA RunStep ==
    ASSUME QuorumFacts, LockInv, TypeInv', NEW c \in Client, NEW n \in Node, NEW heard \in BOOLEAN,
           NodeRuns(c, n, heard)
    PROVE  LockInv'
  <1> DEFINE sent == wire[c][n]
             cmd == Head(sent)
  <1>t. TypeInv
    BY Zenon DEF LockInv
  <1>1. sent \in Seq(Commands) /\ sent # <<>>
    BY <1>t DEF TypeInv, NodeRuns
  <1>2. /\ cmd \in Commands /\ Tail(sent) \in Seq(Commands) /\ cmd = sent[1] /\ Len(sent) \in Nat
        /\ Len(sent) >= 1 /\ Len(Tail(sent)) = Len(sent) - 1
        /\ \A i \in 1 .. Len(sent) - 1 : Tail(sent)[i] = sent[i + 1]
    BY <1>1
  <1>3. /\ lock' = [lock EXCEPT ![n] = Script(n, cmd).lock]
        /\ until' = [until EXCEPT ![n] = Script(n, cmd).until]
        /\ fence' = [fence EXCEPT ![n] = Script(n, cmd).fence]
        /\ wire' = [wire EXCEPT ![c][n] = Tail(sent)]
        /\ UNCHANGED <<now, pc, tries, start, token, expiry, live, issued, floor>>
    BY Zenon DEF NodeRuns, handleVars
  <1>4. \/ /\ ~(Len(sent) = 1 /\ votes[c][n] = Waiting)
           /\ votes' = votes
        \/ /\ Len(sent) = 1 /\ votes[c][n] = Waiting
           /\ votes' = [votes EXCEPT ![c][n] = IF heard THEN Script(n, cmd).reply ELSE Errored]
    BY Zenon DEF NodeRuns
  <1>5. SoundCommand(c, cmd)
    BY <1>2 DEF LockInv, ClientInv, Wired
  <1>6. /\ \A m \in Node : m # n => lock'[m] = lock[m] /\ until'[m] = until[m] /\ fence'[m] = fence[m]
        /\ lock'[n] = Script(n, cmd).lock /\ until'[n] = Script(n, cmd).until
        /\ fence'[n] = Script(n, cmd).fence
    BY Zenon, <1>t, <1>3 DEF TypeInv
  <1>7. /\ \A d \in Client : d # c => wire'[d] = wire[d] /\ votes'[d] = votes[d]
        /\ \A m \in Node : m # n => wire'[c][m] = wire[c][m] /\ votes'[c][m] = votes[c][m]
        /\ wire'[c][n] = Tail(sent)
    <2>1. wire \in [Client -> [Node -> Seq(Commands)]] /\ votes \in [Client -> [Node -> Int]]
      BY Zenon, <1>t DEF TypeInv
    <2> HIDE DEF cmd, sent
    <2>2. /\ \A d \in Client : d # c => wire'[d] = wire[d]
          /\ \A m \in Node : m # n => wire'[c][m] = wire[c][m]
          /\ wire'[c][n] = Tail(sent)
      BY Zenon, <1>3, <2>1
    <2>3. PICK v : votes' = votes \/ votes' = [votes EXCEPT ![c][n] = v]
      BY Zenon, <1>4
    <2>4. /\ \A d \in Client : d # c => votes'[d] = votes[d]
          /\ \A m \in Node : m # n => votes'[c][m] = votes[c][m]
      BY Zenon, <2>1, <2>3
    <2> QED BY Zenon, <2>2, <2>4
  <1>8. \/ /\ votes'[c][n] = votes[c][n] /\ (votes[c][n] = Waiting => Len(sent) > 1)
        \/ votes'[c][n] = Errored
        \/ Len(sent) = 1 /\ votes[c][n] = Waiting /\ votes'[c][n] = Script(n, cmd).reply
    <2>1. votes \in [Client -> [Node -> Int]]
      BY Zenon, <1>t DEF TypeInv
    <2> HIDE DEF cmd, sent
    <2> QED BY <1>2, <1>4, <2>1
  <1> HIDE DEF cmd, sent
  <1>9. /\ Script(n, cmd).until <= now + TTL /\ Script(n, cmd).fence >= fence[n]
        /\ \A d \in Client : pc[d] \in Active /\ lock[n] = value(d) =>
                 Script(n, cmd).lock = value(d) /\ Script(n, cmd).until >= until[n]
    BY Zenon, <1>2, <1>5, ScriptKeeps
  <1>10. \A m \in Node : fence[m] \in Nat /\ fence'[m] \in Nat /\ fence[m] <= fence'[m]
    <2> TAKE m \in Node
    <2>1. fence[m] \in Nat /\ fence'[m] \in Nat
      BY Zenon, <1>t DEF TypeInv
    <2> QED BY <2>1, <1>6, <1>9
  <1>11. \A m \in Node : until'[m] <= now' + TTL
    BY Zenon, <1>3, <1>6, <1>9 DEF LockInv
  <1>12. ASSUME NEW d \in Client PROVE Quiet(d) /\ NodesGrow(d)
    <2>1. Quiet(d) /\ value(d)' = value(d)
      BY Zenon, <1>3 DEF Quiet, value
    <2> SUFFICES ASSUME NEW m \in Node, NEW t \in Int, pc[d] \in Active, m \in Grip(d, t)
                 PROVE  m \in Grip(d, t)'
      <3>1. now' = now /\ now \in Nat /\ \A m \in Node : fence[m] <= fence'[m]
        BY Zenon, <1>t, <1>3, <1>10 DEF TypeInv
      <3> QED BY <2>1, <3>1 DEF NodesGrow
    <2>2. /\ lock[m] = value(d) /\ until[m] >= t + Skew /\ until[m] \in Nat /\ until'[m] \in Nat
          /\ Skew \in Nat
      BY <1>t, RedlockAssumption DEF Grip, TypeInv
    <2>3. CASE m = n
      BY <1>6, <1>9, <2>1, <2>2, <2>3 DEF Grip
    <2>4. CASE m # n
      BY Zenon, <1>6, <2>1, <2>2, <2>4 DEF Grip
    <2> QED BY Zenon, <2>3, <2>4
  <1>13. \A d \in Client : d # c => ClientInv(d)'
    BY Zenon, <1>t, <1>7, <1>12, ClientKept DEF LockInv
  <1>14. Wired(c, n) /\ Voted(c, n) /\ start[c] <= now
    BY Zenon DEF LockInv, ClientInv
  <1>15. Wired(c, n)'
    <2>1. \A x : SoundCommand(c, x) => SoundCommand(c, x)'
      BY Zenon, <1>3 DEF SoundCommand, value
    <2>2. \A x : Asked(c, x) => Asked(c, x)'
      BY Zenon, <1>3 DEF Asked, value
    <2>3. \A i \in 1 .. Len(Tail(sent)) : SoundCommand(c, Tail(sent)[i])
      <3> SUFFICES ASSUME NEW i \in 1 .. Len(Tail(sent)) PROVE SoundCommand(c, Tail(sent)[i])
        BY Zenon
      <3>1. i + 1 \in 1 .. Len(sent) /\ Tail(sent)[i] = sent[i + 1]
        BY <1>2
      <3>2. SoundCommand(c, sent[i + 1])
        BY Zenon, <1>14, <3>1 DEF Wired, sent
      <3> QED BY Zenon, <3>1, <3>2
    <2>4. ASSUME votes'[c][n] = Waiting PROVE Tail(sent) # <<>> /\ Asked(c, Tail(sent)[Len(Tail(sent))])
      <3>1. Script(n, cmd).reply # Waiting
        <4>1. cmd.op \in {"acquire", "bump", "release", "extend"} /\ fence[n] \in Nat
          BY Zenon, <1>2, <1>10 DEF Commands
        <4> QED BY <4>1 DEF Script, ACQUIRE, BUMP_FENCE, RELEASE, EXTEND, Waiting
      <3>2. votes[c][n] = Waiting /\ Len(sent) > 1
        <4>1. Waiting # Errored
          BY DEF Waiting, Errored
        <4> QED BY Zenon, <1>8, <2>4, <3>1, <4>1
      <3>3. Asked(c, sent[Len(sent)])
        BY Zenon, <1>14, <3>2 DEF Wired, sent
      <3>4. Tail(sent)[Len(Tail(sent))] = sent[Len(sent)]
        BY <1>2, <3>2
      <3>5. Tail(sent) # <<>>
        <4>1. Len(Tail(sent)) # Len(<<>>)
          BY <1>2, <3>2
        <4> QED BY Zenon, <4>1
      <3> QED BY Zenon, <3>3, <3>4, <3>5
    <2> QED BY Zenon, <1>7, <2>1, <2>2, <2>3, <2>4 DEF Wired
  <1>16. ASSUME Len(sent) = 1, votes[c][n] = Waiting PROVE Asked(c, cmd)
    BY Zenon, <1>2, <1>14, <1>16 DEF Wired, sent
  <1>17. Voted(c, n)'
    <2>1. CASE votes'[c][n] \in {votes[c][n], Errored}
      BY Zenon, <1>t, <1>12, <1>14, <2>1, VotedKept
    <2>2. CASE Len(sent) = 1 /\ votes[c][n] = Waiting /\ votes'[c][n] = Script(n, cmd).reply
      <3>1. Asked(c, cmd)
        BY Zenon, <1>16, <2>2
      <3>2. /\ cmd.op = "acquire" /\ Script(n, cmd).reply > 0 =>
                  Script(n, cmd).lock = cmd.value /\ Script(n, cmd).until = now + TTL
            /\ cmd.op = "bump" => Script(n, cmd).fence >= cmd.token
            /\ cmd.op = "extend" /\ Script(n, cmd).reply = 1 =>
                  Script(n, cmd).lock = cmd.value /\ Script(n, cmd).until = now + TTL
        BY Zenon, <1>t, <1>2, ScriptAnswers
      <3>3. ASSUME Script(n, cmd).lock = value(c), Script(n, cmd).until = now + TTL
            PROVE  n \in Grip(c, Lease(c))'
        <4>1. value(c)' = value(c) /\ Lease(c)' = Lease(c)
          BY Zenon, <1>3 DEF value, Lease
        <4>2. now + TTL >= Lease(c) + Skew
          <5>1. start[c] \in Nat /\ now \in Nat
            BY Zenon, <1>t DEF TypeInv
          <5>2. TTL \in Nat /\ Skew \in Nat
            BY RedlockAssumption
          <5> QED BY <1>14, <5>1, <5>2 DEF Lease
        <4> QED BY Zenon, <1>6, <3>3, <4>1, <4>2 DEF Grip
      <3> QED BY Zenon, <1>3, <1>6, <2>2, <3>1, <3>2, <3>3 DEF Voted, Asked
    <2> QED BY Zenon, <1>8, <2>1, <2>2
  <1>18. \A m \in Node : Wired(c, m)' /\ Voted(c, m)'
    <2> TAKE m \in Node
    <2>1. CASE m # n
      BY Zenon, <1>t, <1>7, <1>12, <2>1, WiredKept, VotedKept DEF LockInv, ClientInv
    <2> QED BY Zenon, <1>15, <1>17, <2>1
  <1>19. Gripped(c)'
    BY Zenon, <1>t, <1>12, GrippedKept DEF LockInv, ClientInv
  <1>20. Floored(c)'
    <2>1. ASSUME pc[c] = "claiming", votes'[c][n] \notin {votes[c][n], Errored}
          PROVE  votes'[c][n] > fence[n] \/ votes'[c][n] <= 0
      <3>1. cmd.op = "acquire" /\ votes'[c][n] = Script(n, cmd).reply
        BY Zenon, <1>8, <1>16, <2>1 DEF Asked
      <3>2. Script(n, cmd).reply \in Int /\ (Script(n, cmd).reply > 0 => Script(n, cmd).reply > fence[n])
        BY Zenon, <1>t, <1>2, <3>1, ScriptTyped, ScriptAnswers
      <3> QED BY <3>1, <3>2
    <2>2. pc[c] = "claiming" =>
            \A m \in Node : \/ votes'[c][m] \in {votes[c][m], Errored}
                           \/ votes'[c][m] > fence[m] \/ votes'[c][m] <= 0
      BY Zenon, <1>7, <2>1
    <2> QED BY Zenon, <1>t, <1>12, <2>2, FlooredKept DEF LockInv, ClientInv
  <1>21. ClientInv(c)'
    BY Zenon, <1>3, <1>18, <1>19, <1>20 DEF LockInv, ClientInv
  <1>22. (\A i \in 1 .. Len(issued) : Majority(Reached(issued[i])))'
    BY Zenon, <1>3, <1>10, IssuedKept
  <1> QED BY Zenon, <1>11, <1>13, <1>21, <1>22 DEF LockInv

-----------------------------------------------------------------------------
(* Steps of a client.                                                      *)

\* A round begins: its command is the last on every connection.
LEMMA RoundBegins ==
    ASSUME LockInv, NEW c \in Client, NEW cmd \in Commands, onEveryNode(c, cmd),
           \A x : SoundCommand(c, x) => SoundCommand(c, x)',
           SoundCommand(c, cmd)', Asked(c, cmd)'
    PROVE  \A n \in Node : Wired(c, n)'
  <1> TAKE n \in Node
  <1>t. TypeInv
    BY DEF LockInv
  <1>s. wire[c][n] \in Seq(Commands)
    BY <1>t DEF TypeInv
  <1>1. wire'[c][n] = Append(wire[c][n], cmd) /\ wire[c][n] \in Seq(Commands)
    BY <1>t, <1>s, Sends
  <1>2. \A i \in 1 .. Len(wire[c][n]) : SoundCommand(c, wire[c][n][i])
    BY Zenon DEF LockInv, ClientInv, Wired
  <1>3. PICK sent \in Seq(Commands) : sent = wire[c][n]
    BY Zenon, <1>1
  <1>4. /\ Len(Append(sent, cmd)) = Len(sent) + 1 /\ Append(sent, cmd)[Len(sent) + 1] = cmd
        /\ \A i \in 1 .. Len(sent) + 1 : i \in 1 .. Len(sent) \/ i = Len(sent) + 1
        /\ \A i \in 1 .. Len(sent) : Append(sent, cmd)[i] = sent[i]
        /\ Append(sent, cmd) # <<>>
    OBVIOUS
  <1>5. \A i \in 1 .. Len(sent) + 1 : SoundCommand(c, Append(sent, cmd)[i])'
    BY Zenon, <1>2, <1>3, <1>4
  <1> QED BY Zenon, <1>1, <1>3, <1>4, <1>5 DEF Wired

\* A round ends: nothing is written.
LEMMA RoundEnds ==
    ASSUME LockInv, NEW c \in Client, wire' = wire,
           \A n \in Node : votes'[c][n] = Errored,
           \A x : SoundCommand(c, x) => SoundCommand(c, x)'
    PROVE  \A n \in Node : Wired(c, n)'
  <1>1. Errored # Waiting
    BY DEF Errored, Waiting
  <1> QED BY Zenon, <1>1 DEF LockInv, ClientInv, Wired

\* Commands stay sound while the attempt is the same and does not come back.
LEMMA SoundKept ==
    ASSUME NEW c \in Client, tries'[c] = tries[c], pc'[c] \in Active => pc[c] \in Active
    PROVE  \A x : SoundCommand(c, x) => SoundCommand(c, x)'
  BY Zenon DEF SoundCommand, value

\* No vote is in, or none that counts.
LEMMA NoVotes ==
    ASSUME NEW c \in Client, \A n \in Node : votes'[c][n] = Waiting \/ votes'[c][n] = Errored
    PROVE  \A n \in Node : Voted(c, n)'
  <1>1. ~(Waiting > 0) /\ ~(Errored > 0) /\ Waiting # 1 /\ Errored # 1
    BY DEF Waiting, Errored
  <1> QED BY Zenon, <1>1 DEF Voted

\* What a step of c leaves to show.
LEMMA ClientStep ==
    ASSUME QuorumFacts, LockInv, TypeInv', NEW c \in Client, UNCHANGED <<now, lock, until, fence>>,
           \A d \in Client : d # c => Quiet(d) /\ wire'[d] = wire[d] /\ votes'[d] = votes[d],
           (\A i \in 1 .. Len(issued) : Majority(Reached(issued[i])))',
           ClientInv(c)'
    PROVE  LockInv'
  <1>1. \A d \in Client : ClientInv(d)'
    BY Zenon, OthersStill
  <1> QED BY Zenon, <1>1 DEF LockInv

\* releaseEverywhere: the client has given its value up.
LEMMA LetsGo ==
    ASSUME QuorumFacts, LockInv, TypeInv', NEW c \in Client, NEW next \in {"undoing", "dropping", "releasing"},
           releaseEverywhere(c), Goto(c, next), pc[c] \in Active,
           live'[c] => next = "dropping",
           UNCHANGED <<now, lock, until, fence, tries, start, token, expiry, issued, floor>>,
           \A d \in Client : d # c => live'[d] = live[d]
    PROVE  LockInv'
  <1>t. TypeInv
    BY Zenon DEF LockInv
  <1>c. Command("release", value(c), 0) \in Commands
    BY <1>t, RedlockAssumption DEF TypeInv, Command, Commands, value
  <1>0. PICK cmd \in Commands : cmd = Command("release", value(c), 0)
    BY Zenon, <1>c
  <1>1. onEveryNode(c, cmd)
    BY Zenon, <1>0 DEF releaseEverywhere
  <1>2. cmd.op = "release" /\ cmd.value = value(c) /\ value(c)' = value(c)
    BY Zenon, <1>0 DEF Command, value
  <1>3. pc'[c] = next /\ \A d \in Client : d # c => pc'[d] = pc[d]
    BY Zenon, <1>t DEF Goto, TypeInv
  <1>4. next \notin Active
    BY Zenon DEF Active
  <1>5. tries[c] \in Nat /\ tries[c] # 0
    BY <1>t, RedlockAssumption DEF LockInv, ClientInv, TypeInv
  <1>6. SoundCommand(c, cmd)' /\ Asked(c, cmd)'
    <2>1. tries[c] \in 1 .. tries[c] /\ value(c) = <<c, tries[c]>>
      BY <1>5 DEF value
    <2> QED BY Zenon, <1>2, <1>3, <1>4, <2>1 DEF SoundCommand, Asked, Active
  <1>7. \A x : SoundCommand(c, x) => SoundCommand(c, x)'
    BY Zenon, <1>3, <1>4, SoundKept
  <1>8. \A n \in Node : Wired(c, n)'
    BY Zenon, <1>1, <1>6, <1>7, RoundBegins
  <1>9. /\ \A n \in Node : votes'[c][n] = Waiting
        /\ \A d \in Client : d # c => wire'[d] = wire[d] /\ votes'[d] = votes[d]
    BY Zenon, <1>t, <1>1, Sends
  <1>10. \A n \in Node : Voted(c, n)'
    BY Zenon, <1>9, NoVotes
  <1>11. Gripped(c)' /\ Floored(c)'
    BY Zenon, <1>3 DEF Gripped, Floored
  <1>12. start'[c] <= now' /\ (pc'[c] \in Active => tries'[c] # 0) /\ (live'[c] => pc'[c] \in {"held", "extending", "dropping"})
    BY Zenon, <1>3, <1>4 DEF LockInv, ClientInv
  <1>13. ClientInv(c)'
    BY Zenon, <1>8, <1>10, <1>11, <1>12 DEF ClientInv
  <1>14. \A d \in Client : d # c => Quiet(d) /\ wire'[d] = wire[d] /\ votes'[d] = votes[d]
    BY Zenon, <1>3, <1>9 DEF Quiet
  <1>15. (\A i \in 1 .. Len(issued) : Majority(Reached(issued[i])))'
    BY Zenon DEF LockInv, Majority, Reached
  <1> QED BY Zenon, <1>13, <1>14, <1>15, ClientStep

\* The call returns without the lock.
LEMMA ComesBack ==
    ASSUME QuorumFacts, LockInv, TypeInv', NEW c \in Client, Returns(c, "idle"), ~live'[c],
           UNCHANGED <<now, lock, until, fence, wire, tries, token, issued, floor>>,
           \A d \in Client : d # c => live'[d] = live[d] /\ expiry'[d] = expiry[d]
    PROVE  LockInv'
  <1>t. TypeInv
    BY Zenon DEF LockInv
  <1>1. /\ pc'[c] = "idle" /\ start'[c] = 0 /\ \A n \in Node : votes'[c][n] = Errored
        /\ \A d \in Client : d # c => votes'[d] = votes[d] /\ start'[d] = start[d] /\ pc'[d] = pc[d]
    <2>1. "idle" \in Phases
      BY Zenon DEF Phases
    <2>2. PICK next \in Phases : next = "idle"
      BY Zenon, <2>1
    <2>3. Returns(c, next)
      BY Zenon, <2>2
    <2> QED BY Zenon, <1>t, <2>2, <2>3, Ends
  <1>2. pc'[c] \notin Active
    BY Zenon, <1>1 DEF Active
  <1>3. \A n \in Node : Wired(c, n)' /\ Voted(c, n)'
    <2>1. \A x : SoundCommand(c, x) => SoundCommand(c, x)'
      BY Zenon, <1>2, SoundKept
    <2>2. \A n \in Node : Wired(c, n)'
      BY Zenon, <1>1, <2>1, RoundEnds
    <2> QED BY Zenon, <1>1, <2>2, NoVotes
  <1>4. Gripped(c)' /\ Floored(c)'
    BY Zenon, <1>1 DEF Gripped, Floored
  <1>5. start'[c] <= now'
    BY <1>1 DEF TypeInv
  <1>6. ClientInv(c)'
    BY Zenon, <1>2, <1>3, <1>4, <1>5 DEF ClientInv
  <1>7. \A d \in Client : d # c => Quiet(d) /\ wire'[d] = wire[d] /\ votes'[d] = votes[d]
    BY Zenon, <1>1 DEF Quiet
  <1>8. (\A i \in 1 .. Len(issued) : Majority(Reached(issued[i])))'
    BY Zenon DEF LockInv, Majority, Reached
  <1> QED BY Zenon, <1>6, <1>7, <1>8, ClientStep

\* attempt: a claim under a fresh value is sent to every node.
LEMMA AttemptStep ==
    ASSUME QuorumFacts, LockInv, TypeInv', NEW c \in Client, attempt(c)
    PROVE  LockInv'
  <1>t. TypeInv
    BY Zenon DEF LockInv
  <1>0. UNCHANGED <<now, lock, until, fence, token, expiry, live, issued>>
    BY Zenon DEF attempt, nodeVars, handleVars
  <1>1. /\ pc[c] = "idle" /\ pc'[c] = "claiming" /\ tries'[c] = tries[c] + 1 /\ start'[c] = now
        /\ floor'[c] = {issued[i] : i \in DOMAIN issued}
        /\ \A d \in Client : d # c =>
             pc'[d] = pc[d] /\ tries'[d] = tries[d] /\ start'[d] = start[d] /\ floor'[d] = floor[d]
    BY Zenon, <1>t DEF attempt, Goto, TypeInv
  <1>2. tries[c] \in Nat /\ now \in Nat
    BY <1>t DEF TypeInv
  <1>c. Command("acquire", <<c, tries[c] + 1>>, 0) \in Commands
    BY <1>2 DEF Command, Commands
  <1>3. PICK cmd \in Commands : cmd = Command("acquire", <<c, tries[c] + 1>>, 0)
    BY Zenon, <1>c
  <1>4. onEveryNode(c, cmd)
    BY Zenon, <1>3 DEF attempt
  <1>5. cmd.op = "acquire" /\ cmd.value = <<c, tries[c] + 1>> /\ value(c)' = <<c, tries[c] + 1>>
    BY Zenon, <1>1, <1>3 DEF Command, value
  <1>6. SoundCommand(c, cmd)' /\ Asked(c, cmd)'
    BY <1>1, <1>2, <1>5 DEF SoundCommand, Asked
  <1>7. \A x : SoundCommand(c, x) => SoundCommand(c, x)'
    <2> TAKE x
    <2> SUFFICES ASSUME SoundCommand(c, x) PROVE SoundCommand(c, x)'
      BY Zenon
    <2>1. PICK k \in 1 .. tries[c] : x.value = <<c, k>>
      BY Zenon DEF SoundCommand
    <2>2. k \in 1 .. tries[c] + 1 /\ k # tries[c] + 1
      BY <1>2
    <2>3. x.value # <<c, tries[c] + 1>>
      BY <2>1, <2>2
    <2> QED BY Zenon, <1>1, <1>5, <2>1, <2>2, <2>3 DEF SoundCommand
  <1>8. \A n \in Node : Wired(c, n)'
    BY Zenon, <1>4, <1>6, <1>7, RoundBegins
  <1>9. /\ \A n \in Node : votes'[c][n] = Waiting
        /\ \A d \in Client : d # c => wire'[d] = wire[d] /\ votes'[d] = votes[d]
    BY Zenon, <1>t, <1>4, Sends
  <1>10. \A n \in Node : Voted(c, n)'
    BY Zenon, <1>9, NoVotes
  <1>11. Floored(c)'
    <2> SUFFICES ASSUME NEW t \in floor'[c] PROVE Majority(Above(c, t)')
      BY Zenon, <1>1 DEF Floored, Majority
    <2>1. PICK i \in 1 .. Len(issued) : t = issued[i]
      BY <1>1, <1>t DEF TypeInv
    <2>2. Majority(Reached(t))
      BY Zenon, <2>1 DEF LockInv
    <2>3. ~(Waiting > 0)
      BY DEF Waiting
    <2>4. Reached(t) \subseteq Above(c, t)' /\ Above(c, t)' \subseteq Node
      BY Zenon, <1>0, <1>9, <2>3 DEF Reached, Above
    <2> QED BY Zenon, <2>2, <2>4, MajorityGrows
  <1>12. Gripped(c)'
    BY Zenon, <1>1 DEF Gripped
  <1>13. live'[c] => pc'[c] \in {"held", "extending", "dropping"}
    BY Zenon, <1>0, <1>1 DEF LockInv, ClientInv
  <1>14. ClientInv(c)'
    BY <1>0, <1>1, <1>2, <1>8, <1>10, <1>11, <1>12, <1>13 DEF ClientInv
  <1>15. \A d \in Client : d # c => Quiet(d) /\ wire'[d] = wire[d] /\ votes'[d] = votes[d]
    BY Zenon, <1>0, <1>1, <1>9 DEF Quiet
  <1>16. (\A i \in 1 .. Len(issued) : Majority(Reached(issued[i])))'
    BY Zenon, <1>0 DEF LockInv, Majority, Reached
  <1> QED BY Zenon, <1>0, <1>14, <1>15, <1>16, ClientStep

\* The claims in hand are a majority that keeps the value for the lease, and
\* the token drawn is above every one the attempt must exceed.
LEMMA ClaimStep ==
    ASSUME QuorumFacts, LockInv, TypeInv', NEW c \in Client, ClaimSucceeds(c)
    PROVE  LockInv'
  <1>t. TypeInv
    BY Zenon DEF LockInv
  <1>0. UNCHANGED <<now, lock, until, fence, tries, start, expiry, live, issued, floor>>
    BY Zenon DEF ClaimSucceeds, nodeVars
  <1>1. PICK t \in {votes[c][n] : n \in claimed(c)} :
          Drawn(c, t) /\ token' = [token EXCEPT ![c] = t] /\ onEveryNode(c, Command("bump", value(c), t))
    BY Zenon DEF ClaimSucceeds
  <1>2. t \in Int
    BY <1>t DEF claimed, TypeInv
  <1>3. /\ pc[c] = "claiming" /\ pc'[c] = "publishing" /\ token'[c] = t
        /\ \A d \in Client : d # c => pc'[d] = pc[d] /\ token'[d] = token[d]
    BY Zenon, <1>t, <1>1 DEF ClaimSucceeds, Round, Goto, TypeInv
  <1>a. tries[c] # 0
    BY Zenon, <1>3 DEF LockInv, ClientInv, Active
  <1>4. tries[c] \in Nat /\ tries[c] # 0
    BY <1>t, <1>a DEF TypeInv
  <1>c. Command("bump", value(c), t) \in Commands
    BY Zenon, <1>2, <1>4 DEF Command, Commands, value
  <1>5. PICK cmd \in Commands : cmd = Command("bump", value(c), t)
    BY Zenon, <1>c
  <1>6. onEveryNode(c, cmd)
    BY Zenon, <1>1, <1>5
  <1>7. cmd.op = "bump" /\ cmd.value = value(c) /\ cmd.token = t /\ value(c)' = value(c)
    BY Zenon, <1>0, <1>5 DEF Command, value
  <1>8. SoundCommand(c, cmd)' /\ Asked(c, cmd)'
    <2>1. tries[c] \in 1 .. tries[c] /\ value(c) = <<c, tries[c]>>
      BY <1>4 DEF value
    <2> QED BY Zenon, <1>0, <1>3, <1>7, <2>1 DEF SoundCommand, Asked
  <1>9. \A x : SoundCommand(c, x) => SoundCommand(c, x)'
    BY Zenon, <1>0, <1>3, SoundKept DEF Active
  <1>10. \A n \in Node : Wired(c, n)'
    BY Zenon, <1>6, <1>8, <1>9, RoundBegins
  <1>11. /\ \A n \in Node : votes'[c][n] = Waiting
         /\ \A d \in Client : d # c => wire'[d] = wire[d] /\ votes'[d] = votes[d]
    BY Zenon, <1>t, <1>6, Sends
  <1>12. \A n \in Node : Voted(c, n)'
    BY Zenon, <1>11, NoVotes
  <1>13. Majority(claimed(c)) /\ claimed(c) \subseteq Node
    BY Zenon DEF ClaimSucceeds, Majority, claimed
  <1>14. Gripped(c)'
    <2> SUFFICES ASSUME now < Lease(c) PROVE Majority(Grip(c, Lease(c)))
      BY Zenon, <1>0, <1>3, <1>7 DEF Gripped, Lease, Grip, Majority
    <2>1. claimed(c) \subseteq Grip(c, Lease(c)) /\ Grip(c, Lease(c)) \subseteq Node
      BY Zenon, <1>3 DEF LockInv, ClientInv, Voted, claimed, Grip
    <2> QED BY Zenon, <1>13, <2>1, MajorityGrows
  <1>15. Floored(c)'
    <2> SUFFICES ASSUME NEW u \in floor[c] PROVE t > u
      BY Zenon, <1>0, <1>3 DEF Floored
    <2>1. u \in Int
      BY Zenon, <1>t DEF TypeInv
    <2>2. Majority(Above(c, u)) /\ Above(c, u) \subseteq Node
      BY Zenon, <1>3 DEF LockInv, ClientInv, Floored, Above
    <2>3. PICK n \in Node : n \in Above(c, u) /\ n \in claimed(c)
      BY Zenon, <1>13, <2>2, MajoritiesMeet
    <2>4. votes[c][n] > u /\ votes[c][n] <= t /\ votes[c][n] \in Int
      BY <1>t, <1>1, <2>3 DEF Above, claimed, Drawn, TypeInv
    <2> QED BY <1>2, <2>1, <2>4
  <1>16. live'[c] => pc'[c] \in {"held", "extending", "dropping"}
    BY Zenon, <1>0, <1>3 DEF LockInv, ClientInv
  <1>17. start'[c] <= now' /\ tries'[c] # 0
    BY Zenon, <1>0, <1>4 DEF LockInv, ClientInv
  <1>18. ClientInv(c)'
    BY Zenon, <1>10, <1>12, <1>14, <1>15, <1>16, <1>17 DEF ClientInv
  <1>19. \A d \in Client : d # c => Quiet(d) /\ wire'[d] = wire[d] /\ votes'[d] = votes[d]
    BY Zenon, <1>0, <1>3, <1>11 DEF Quiet
  <1>20. (\A i \in 1 .. Len(issued) : Majority(Reached(issued[i])))'
    BY Zenon, <1>0 DEF LockInv, Majority, Reached
  <1> QED BY Zenon, <1>0, <1>18, <1>19, <1>20, ClientStep

\* A round that ends with the lease in hand: the handle's own deadline is
\* earlier than the nodes' by the drift allowance.
LEMMA HandleGripped ==
    ASSUME QuorumFacts, TypeInv, NEW c \in Client, validityFrom(c) > 0, now < Lease(c) => Majority(Grip(c, Lease(c)))
    PROVE  \A e \in Int : e = now + validityFrom(c) => Majority(Grip(c, e))
  <1> TAKE e \in Int
  <1> SUFFICES ASSUME e = now + validityFrom(c) PROVE Majority(Grip(c, e))
    BY Zenon
  <1>1. /\ now \in Nat /\ start[c] \in Nat /\ TTL \in Nat /\ Drift \in Nat /\ Skew \in Nat
        /\ Skew <= Drift
    BY RedlockAssumption DEF TypeInv
  <1>2. now < Lease(c) /\ e <= Lease(c) /\ Lease(c) \in Int
    BY <1>1 DEF validityFrom, Lease
  <1>3. Grip(c, Lease(c)) \subseteq Grip(c, e) /\ Grip(c, e) \subseteq Node
    <2> SUFFICES ASSUME NEW n \in Grip(c, Lease(c)) PROVE n \in Grip(c, e)
      BY Zenon DEF Grip
    <2>1. n \in Node /\ lock[n] = value(c) /\ until[n] >= Lease(c) + Skew /\ until[n] \in Nat
      BY Zenon DEF Grip, TypeInv
    <2>2. until[n] >= e + Skew
      BY <1>1, <1>2, <2>1
    <2> QED BY Zenon, <2>1, <2>2 DEF Grip
  <1> QED BY Zenon, <1>2, <1>3, MajorityGrows

\* The call returns with the lock.
LEMMA HandOut ==
    ASSUME QuorumFacts, LockInv, TypeInv', NEW c \in Client, Returns(c, "held"), pc[c] \in {"publishing", "extending"},
           validityFrom(c) > 0, now < Lease(c) => Majority(Grip(c, Lease(c))),
           expiry' = [expiry EXCEPT ![c] = now + validityFrom(c)],
           UNCHANGED <<now, lock, until, fence, wire, tries, token, floor>>,
           \A d \in Client : d # c => live'[d] = live[d],
           (\A i \in 1 .. Len(issued) : Majority(Reached(issued[i])))'
    PROVE  LockInv'
  <1>t. TypeInv
    BY Zenon DEF LockInv
  <1>1. /\ pc'[c] = "held" /\ start'[c] = 0 /\ \A n \in Node : votes'[c][n] = Errored
        /\ \A d \in Client : d # c => votes'[d] = votes[d] /\ start'[d] = start[d] /\ pc'[d] = pc[d]
    <2>1. PICK next \in Phases : next = "held"
      BY Zenon DEF Phases, Active
    <2>2. Returns(c, next)
      BY Zenon, <2>1
    <2> QED BY Zenon, <1>t, <2>1, <2>2, Ends
  <1>2. pc[c] \in Active /\ pc'[c] \in Active
    BY Zenon, <1>1 DEF Active
  <1>3. \A n \in Node : Wired(c, n)' /\ Voted(c, n)'
    <2>1. \A x : SoundCommand(c, x) => SoundCommand(c, x)'
      BY Zenon, <1>2, SoundKept
    <2>2. \A n \in Node : Wired(c, n)'
      BY Zenon, <1>1, <2>1, RoundEnds
    <2> QED BY Zenon, <1>1, <2>2, NoVotes
  <1>4. now + validityFrom(c) \in Int
    BY Zenon, <1>t, RedlockAssumption DEF validityFrom, TypeInv
  <1>5. PICK e \in Int : e = now + validityFrom(c)
    BY Zenon, <1>4
  <1>6. expiry'[c] = e /\ \A d \in Client : d # c => expiry'[d] = expiry[d]
    BY Zenon, <1>t, <1>5 DEF TypeInv
  <1>7. Majority(Grip(c, e))
    BY Zenon, <1>t, <1>5, HandleGripped
  <1>8. Gripped(c)'
    <2>1. Grip(c, expiry[c])' = Grip(c, e)
      BY Zenon, <1>6 DEF Grip, value
    <2> QED BY Zenon, <1>1, <1>7, <2>1 DEF Gripped, Majority
  <1>9. Floored(c)'
    BY Zenon, <1>1 DEF LockInv, ClientInv, Floored
  <1>10. start'[c] <= now' /\ tries'[c] # 0
    BY <1>1, <1>2 DEF LockInv, ClientInv, TypeInv
  <1>11. ClientInv(c)'
    BY Zenon, <1>1, <1>3, <1>8, <1>9, <1>10 DEF ClientInv
  <1>12. \A d \in Client : d # c => Quiet(d) /\ wire'[d] = wire[d] /\ votes'[d] = votes[d]
    BY Zenon, <1>1, <1>6 DEF Quiet
  <1> QED BY Zenon, <1>11, <1>12, ClientStep

\* A majority has the token: the handle is returned.
LEMMA PublishStep ==
    ASSUME QuorumFacts, LockInv, TypeInv', NEW c \in Client, PublishSucceeds(c)
    PROVE  LockInv'
  <1>t. TypeInv
    BY Zenon DEF LockInv
  <1>1. /\ pc[c] = "publishing" /\ Returns(c, "held") /\ Majority(confirmed(c)) /\ validityFrom(c) > 0
        /\ expiry' = [expiry EXCEPT ![c] = now + validityFrom(c)]
        /\ UNCHANGED <<now, lock, until, fence, wire, tries, token, floor>>
        /\ issued' = Append(issued, token[c])
    BY Zenon DEF PublishSucceeds, Round, Majority, nodeVars
  <1>2. \A d \in Client : d # c => live'[d] = live[d]
    BY Zenon, <1>t DEF PublishSucceeds, TypeInv
  <1>3. now < Lease(c) => Majority(Grip(c, Lease(c)))
    BY Zenon, <1>1 DEF LockInv, ClientInv, Gripped
  <1>4. Majority(Reached(token[c]))
    <2>1. confirmed(c) \subseteq Reached(token[c]) /\ Reached(token[c]) \subseteq Node
      BY Zenon, <1>1 DEF LockInv, ClientInv, Voted, confirmed, Reached
    <2> QED BY Zenon, <1>1, <2>1, MajorityGrows
  <1>5. (\A i \in 1 .. Len(issued) : Majority(Reached(issued[i])))'
    <2>1. issued \in Seq(Int) /\ token[c] \in Int
      BY Zenon, <1>t DEF TypeInv
    <2>2. \A i \in 1 .. Len(issued') : issued'[i] = token[c] \/ (i \in 1 .. Len(issued) /\ issued'[i] = issued[i])
      BY <1>1, <2>1
    <2>3. \A i \in 1 .. Len(issued) : Majority(Reached(issued[i]))
      BY Zenon DEF LockInv
    <2>4. \A i \in 1 .. Len(issued') : Majority(Reached(issued'[i]))
      BY Zenon, <1>4, <2>2, <2>3
    <2> QED BY Zenon, <1>1, <2>4 DEF Reached, Majority
  <1>6. pc[c] \in {"publishing", "extending"}
    BY Zenon, <1>1
  <1> QED BY Zenon, <1>1, <1>2, <1>3, <1>5, <1>6, HandOut

\* A majority prolonged the key: the handle lives on.
LEMMA ExtendedStep ==
    ASSUME QuorumFacts, LockInv, TypeInv', NEW c \in Client, ExtendSucceeds(c)
    PROVE  LockInv'
  <1>1. /\ pc[c] = "extending" /\ Returns(c, "held") /\ Majority(confirmed(c)) /\ validityFrom(c) > 0
        /\ expiry' = [expiry EXCEPT ![c] = now + validityFrom(c)]
        /\ UNCHANGED <<now, lock, until, fence, wire, tries, token, live, issued, floor>>
    BY Zenon DEF ExtendSucceeds, Round, Majority, nodeVars
  <1>2. ASSUME now < Lease(c) PROVE Majority(Grip(c, Lease(c)))
    <2>1. confirmed(c) \subseteq Grip(c, Lease(c)) /\ Grip(c, Lease(c)) \subseteq Node
      BY Zenon, <1>1, <1>2 DEF LockInv, ClientInv, Voted, confirmed, Grip
    <2> QED BY Zenon, <1>1, <2>1, MajorityGrows
  <1>3. (\A i \in 1 .. Len(issued) : Majority(Reached(issued[i])))'
    BY Zenon, <1>1 DEF LockInv, Majority, Reached
  <1>4. pc[c] \in {"publishing", "extending"} /\ \A d \in Client : d # c => live'[d] = live[d]
    BY Zenon, <1>1
  <1> QED BY Zenon, <1>1, <1>2, <1>3, <1>4, HandOut

\* extend: the holder asks every node for a new TTL.
LEMMA ExtendStep ==
    ASSUME QuorumFacts, LockInv, TypeInv', NEW c \in Client, extend(c)
    PROVE  LockInv'
  <1>t. TypeInv
    BY Zenon DEF LockInv
  <1>0. UNCHANGED <<now, lock, until, fence, tries, token, expiry, live, issued, floor>>
    BY Zenon DEF extend, nodeVars, handleVars
  <1>1. /\ pc[c] = "held" /\ pc'[c] = "extending" /\ start'[c] = now
        /\ \A d \in Client : d # c => pc'[d] = pc[d] /\ start'[d] = start[d]
    BY Zenon, <1>t DEF extend, Goto, TypeInv
  <1>a. tries[c] # 0
    BY Zenon, <1>1 DEF LockInv, ClientInv, Active
  <1>2. tries[c] \in Nat /\ tries[c] # 0 /\ now \in Nat
    BY <1>t, <1>a DEF TypeInv
  <1>c. Command("extend", value(c), 0) \in Commands
    BY <1>2 DEF Command, Commands, value
  <1>3. PICK cmd \in Commands : cmd = Command("extend", value(c), 0)
    BY Zenon, <1>c
  <1>4. onEveryNode(c, cmd)
    BY Zenon, <1>3 DEF extend
  <1>5. cmd.op = "extend" /\ cmd.value = value(c) /\ value(c)' = value(c)
    BY Zenon, <1>0, <1>3 DEF Command, value
  <1>6. SoundCommand(c, cmd)' /\ Asked(c, cmd)'
    <2>1. tries[c] \in 1 .. tries[c] /\ value(c) = <<c, tries[c]>>
      BY <1>2 DEF value
    <2> QED BY Zenon, <1>0, <1>1, <1>5, <2>1 DEF SoundCommand, Asked
  <1>7. \A x : SoundCommand(c, x) => SoundCommand(c, x)'
    BY Zenon, <1>0, <1>1, SoundKept DEF Active
  <1>8. \A n \in Node : Wired(c, n)'
    BY Zenon, <1>4, <1>6, <1>7, RoundBegins
  <1>9. /\ \A n \in Node : votes'[c][n] = Waiting
        /\ \A d \in Client : d # c => wire'[d] = wire[d] /\ votes'[d] = votes[d]
    BY Zenon, <1>t, <1>4, Sends
  <1>10. \A n \in Node : Voted(c, n)'
    BY Zenon, <1>9, NoVotes
  <1>11. Gripped(c)'
    BY Zenon, <1>0, <1>1, <1>5 DEF LockInv, ClientInv, Gripped, Grip, Majority
  <1>12. Floored(c)'
    BY Zenon, <1>0, <1>1 DEF LockInv, ClientInv, Floored
  <1>13. ClientInv(c)'
    BY <1>0, <1>1, <1>2, <1>8, <1>10, <1>11, <1>12 DEF ClientInv
  <1>14. \A d \in Client : d # c => Quiet(d) /\ wire'[d] = wire[d] /\ votes'[d] = votes[d]
    BY Zenon, <1>0, <1>1, <1>9 DEF Quiet
  <1>15. (\A i \in 1 .. Len(issued) : Majority(Reached(issued[i])))'
    BY Zenon, <1>0 DEF LockInv, Majority, Reached
  <1> QED BY Zenon, <1>0, <1>13, <1>14, <1>15, ClientStep

-----------------------------------------------------------------------------
(* The invariant.                                                          *)

\* Nothing is held at the start.
LEMMA InitHolds == Init => LockInv
  <1> SUFFICES ASSUME Init PROVE LockInv
    BY Zenon
  <1>1. TypeInv
    <2>1. /\ now \in Nat /\ DOMAIN lock = Node /\ until \in [Node -> Nat] /\ fence \in [Node -> Nat]
          /\ wire \in [Client -> [Node -> Seq(Commands)]]
      BY RedlockAssumption DEF Init
    <2>2. /\ votes \in [Client -> [Node -> Int]] /\ pc \in [Client -> Phases]
          /\ tries \in [Client -> 0 .. MaxTries] /\ start \in [Client -> Nat]
      BY RedlockAssumption DEF Init, Errored, Phases
    <2>3. /\ token \in [Client -> Int] /\ expiry \in [Client -> Int] /\ live \in [Client -> BOOLEAN]
          /\ issued \in Seq(Int) /\ floor \in [Client -> SUBSET Int]
      BY DEF Init
    <2> QED BY Zenon, <2>1, <2>2, <2>3 DEF TypeInv
  <1>2. \A n \in Node : until[n] <= now + TTL
    BY RedlockAssumption DEF Init
  <1>3. \A i \in 1 .. Len(issued) : Majority(Reached(issued[i]))
    BY DEF Init
  <1>4. ASSUME NEW c \in Client PROVE ClientInv(c)
    <2>1. /\ pc[c] = "idle" /\ start[c] = 0 /\ now = 0 /\ ~live[c]
          /\ \A n \in Node : wire[c][n] = <<>> /\ votes[c][n] # Waiting
      BY DEF Init, Waiting, Errored
    <2>2. \A n \in Node : Wired(c, n) /\ Voted(c, n)
      BY <2>1 DEF Wired, Voted
    <2>3. Gripped(c) /\ Floored(c)
      BY Zenon, <2>1 DEF Gripped, Floored
    <2> QED BY <2>1, <2>2, <2>3 DEF ClientInv, Active
  <1> QED BY Zenon, <1>1, <1>2, <1>3, <1>4 DEF LockInv

\* Every step preserves the invariant.
LEMMA NextHolds ==
    ASSUME QuorumFacts
    PROVE  LockInv /\ [Next]_vars => LockInv'
  <1> SUFFICES ASSUME LockInv, [Next]_vars PROVE LockInv'
    BY Zenon
  <1>t. TypeInv /\ TypeInv'
    BY Zenon, TypeStep DEF LockInv
  <1> USE DEF nodeVars, handleVars
  <1>l. \A c \in Client : live[c] => pc[c] \in {"held", "extending", "dropping"}
    BY Zenon DEF LockInv, ClientInv
  <1>1. CASE Tick \/ \E n \in Node : KeyExpires(n)
    BY Zenon, <1>1, <1>t, ClockStep
  <1>2. ASSUME NEW c \in Client, NEW n \in Node, TimesOut(c, n) \/ Disconnects(c, n) PROVE LockInv'
    BY Zenon, <1>2, <1>t, LossStep
  <1>3. ASSUME NEW c \in Client, NEW n \in Node, NEW heard \in BOOLEAN, NodeRuns(c, n, heard)
        PROVE  LockInv'
    BY Zenon, <1>3, <1>t, RunStep
  <1>4. ASSUME NEW c \in Client, attempt(c) PROVE LockInv'
    BY Zenon, <1>4, <1>t, AttemptStep
  <1>5. ASSUME NEW c \in Client, ClaimSucceeds(c) PROVE LockInv'
    BY Zenon, <1>5, <1>t, ClaimStep
  <1>6. ASSUME NEW c \in Client, PublishSucceeds(c) PROVE LockInv'
    BY Zenon, <1>6, <1>t, PublishStep
  <1>7. ASSUME NEW c \in Client, extend(c) PROVE LockInv'
    BY Zenon, <1>7, <1>t, ExtendStep
  <1>8. ASSUME NEW c \in Client, ExtendSucceeds(c) PROVE LockInv'
    BY Zenon, <1>8, <1>t, ExtendedStep
  <1>9. ASSUME NEW c \in Client, ClaimFails(c) \/ ClaimUnsafe(c) \/ PublishFails(c) PROVE LockInv'
    <2>1. /\ pc[c] \in {"claiming", "publishing"} /\ releaseEverywhere(c) /\ Goto(c, "undoing")
          /\ UNCHANGED <<now, lock, until, fence, tries, start, token, expiry, live, issued, floor>>
      BY Zenon, <1>9 DEF ClaimFails, ClaimUnsafe, PublishFails, Round
    <2>2. pc[c] \in Active /\ ~live'[c] /\ \A d \in Client : d # c => live'[d] = live[d]
      BY Zenon, <1>l, <2>1 DEF Active
    <2>3. PICK next \in {"undoing", "dropping", "releasing"} : next = "undoing"
      BY Zenon
    <2>4. Goto(c, next)
      BY Zenon, <2>1, <2>3
    <2> QED BY Zenon, <1>t, <2>1, <2>2, <2>4, LetsGo
  <1>10. ASSUME NEW c \in Client, ExtendFails(c) PROVE LockInv'
    <2>1. /\ pc[c] = "extending" /\ releaseEverywhere(c) /\ Goto(c, "dropping")
          /\ UNCHANGED <<now, lock, until, fence, tries, start, token, expiry, live, issued, floor>>
      BY Zenon, <1>10 DEF ExtendFails, Round
    <2>2. pc[c] \in Active /\ \A d \in Client : d # c => live'[d] = live[d]
      BY Zenon, <2>1 DEF Active
    <2>3. PICK next \in {"undoing", "dropping", "releasing"} : next = "dropping"
      BY Zenon
    <2>4. Goto(c, next)
      BY Zenon, <2>1, <2>3
    <2> QED BY Zenon, <1>t, <2>1, <2>2, <2>3, <2>4, LetsGo
  <1>11. ASSUME NEW c \in Client, release(c) PROVE LockInv'
    <2>1. /\ pc[c] = "held" /\ releaseEverywhere(c) /\ Goto(c, "releasing")
          /\ UNCHANGED <<now, lock, until, fence, tries, start, token, expiry, issued, floor>>
      BY Zenon, <1>11 DEF release
    <2>2. pc[c] \in Active /\ ~live'[c] /\ \A d \in Client : d # c => live'[d] = live[d]
      BY Zenon, <1>11, <1>t, <2>1 DEF Active, release, TypeInv
    <2>3. PICK next \in {"undoing", "dropping", "releasing"} : next = "releasing"
      BY Zenon
    <2>4. Goto(c, next)
      BY Zenon, <2>1, <2>3
    <2> QED BY Zenon, <1>t, <2>1, <2>2, <2>4, LetsGo
  <1>12. ASSUME NEW c \in Client, UndoDone(c) \/ DropDone(c) \/ ReleaseDone(c) PROVE LockInv'
    <2>1. /\ pc[c] \in {"undoing", "dropping", "releasing"} /\ Returns(c, "idle")
          /\ UNCHANGED <<now, lock, until, fence, wire, tries, token, issued, floor>>
      BY Zenon, <1>12 DEF UndoDone, DropDone, ReleaseDone, Round
    <2>2. ~live'[c] /\ \A d \in Client : d # c => live'[d] = live[d] /\ expiry'[d] = expiry[d]
      BY Zenon, <1>12, <1>t, <1>l DEF UndoDone, DropDone, ReleaseDone, Round, TypeInv
    <2> QED BY Zenon, <1>t, <2>1, <2>2, ComesBack
  <1>13. CASE UNCHANGED vars
    <2>1. \A c \in Client : ClientInv(c)'
      BY Zenon, <1>13, <1>t, ClientKept, NodesStill DEF vars, Quiet, LockInv
    <2>2. (\A i \in 1 .. Len(issued) : Majority(Reached(issued[i])))' /\ \A n \in Node : until'[n] <= now' + TTL
      BY Zenon, <1>13 DEF vars, LockInv, Reached, Majority
    <2> QED BY Zenon, <1>t, <2>1, <2>2 DEF LockInv
  <1> QED
    BY Zenon, <1>1, <1>2, <1>3, <1>4, <1>5, <1>6, <1>7, <1>8, <1>9, <1>10, <1>11, <1>12, <1>13 DEF Next

-----------------------------------------------------------------------------
(* Majorities of a finite set of nodes, by the library's theorems.         *)

Sets == INSTANCE FiniteSetTheorems

\* The library counts as this module does.
LEMMA SameCounts ==
    ASSUME NEW S
    PROVE  (Sets!IsFiniteSet(S) <=> IsFiniteSet(S)) /\ Sets!Cardinality(S) = Cardinality(S)
  BY Zenon DEF Sets!IsFiniteSet, IsFiniteSet, Sets!Cardinality, Cardinality

\* A set of nodes is finite and no larger than one that contains it.
LEMMA NodesCounted ==
    ASSUME NEW S, NEW T, S \subseteq T, T \subseteq Node
    PROVE  /\ IsFiniteSet(T) /\ Cardinality(S) <= Cardinality(T)
           /\ Cardinality(S) \in Nat /\ Cardinality(T) \in Nat /\ Cardinality(Node) \in Nat
  <1>1. Sets!IsFiniteSet(Node)
    BY Zenon, RedlockAssumption, SameCounts
  <1>2. Sets!IsFiniteSet(T)
    BY Zenon, <1>1, Sets!FS_Subset
  <1>3. Sets!IsFiniteSet(S) /\ Sets!Cardinality(S) <= Sets!Cardinality(T)
    BY Zenon, <1>2, Sets!FS_Subset
  <1>4. /\ Sets!Cardinality(S) \in Nat /\ Sets!Cardinality(T) \in Nat
        /\ Sets!Cardinality(Node) \in Nat
    BY Zenon, <1>1, <1>2, <1>3, Sets!FS_CardinalityType
  <1> QED BY Zenon, <1>2, <1>3, <1>4, SameCounts

\* A set that contains a majority of the finitely many nodes is one.
LEMMA QuorumsGrow ==
    ASSUME NEW S, NEW T, S \subseteq T, T \subseteq Node, Majority(S)
    PROVE  Majority(T)
  <1>1. /\ Cardinality(S) <= Cardinality(T)
        /\ Cardinality(S) \in Nat /\ Cardinality(T) \in Nat /\ Cardinality(Node) \in Nat
    BY Zenon, NodesCounted
  <1> QED BY <1>1 DEF Majority, quorum

\* Two majorities have more than all nodes between them.
LEMMA QuorumsMeet ==
    ASSUME NEW S, NEW T, S \subseteq Node, T \subseteq Node, Majority(S), Majority(T)
    PROVE  \E n \in Node : n \in S /\ n \in T
  <1>1. Cardinality(S) \in Nat /\ Cardinality(T) \in Nat /\ Cardinality(Node) \in Nat
    BY Zenon, NodesCounted
  <1>2. Cardinality(S) + Cardinality(T) > Cardinality(Node)
    BY <1>1 DEF Majority, quorum
  <1>a. /\ Sets!Cardinality(S) = Cardinality(S) /\ Sets!Cardinality(T) = Cardinality(T)
        /\ Sets!Cardinality(Node) = Cardinality(Node) /\ Sets!IsFiniteSet(Node)
    BY Zenon, RedlockAssumption, SameCounts
  <1>3. Sets!Cardinality(S) + Sets!Cardinality(T) > Sets!Cardinality(Node)
    BY <1>2, <1>a
  <1>4. S \cap T # {}
    BY Zenon, <1>a, <1>3, Sets!FS_MajoritiesIntersect
  <1> QED BY Zenon, <1>4

\* Majorities of a finite set of nodes grow and meet.
LEMMA Quorums == QuorumFacts
  BY Zenon, QuorumsGrow, QuorumsMeet DEF QuorumFacts

-----------------------------------------------------------------------------
\* The inductive invariant of the lock: whatever is under way, a handle that
\* may still be reported as held is on a majority of the nodes for longer than
\* that, and every token handed out is behind a majority's counters.
THEOREM LockInvariant == Spec => []LockInv
  <1>1. Init => LockInv
    BY Zenon, InitHolds
  <1>2. LockInv /\ [Next]_vars => LockInv'
    BY Zenon, Quorums, NextHolds
  <1> QED BY <1>1, <1>2, PTL DEF Spec

\* Mutual exclusion of redlock.service.ts for any number of nodes and clients,
\* any lease and drift allowance, however late commands run or are answered.
THEOREM OneHolder == Spec => []MutualExclusion
  <1>1. LockInv => MutualExclusion
    <2> SUFFICES ASSUME LockInv, NEW c \in Client, NEW d \in Client,
                        Holding(c), pc[c] # "dropping", Holding(d), pc[d] # "dropping"
                 PROVE  c = d
      BY Zenon DEF MutualExclusion
    <2>1. ASSUME NEW e \in Client, Holding(e), pc[e] # "dropping" PROVE Majority(Grip(e, expiry[e]))
      BY Zenon, <2>1 DEF Holding, LockInv, ClientInv, Gripped
    <2>2. Majority(Grip(c, expiry[c])) /\ Majority(Grip(d, expiry[d]))
      BY Zenon, <2>1
    <2>3. Grip(c, expiry[c]) \subseteq Node /\ Grip(d, expiry[d]) \subseteq Node
      BY Zenon DEF Grip
    <2>4. PICK n \in Node : n \in Grip(c, expiry[c]) /\ n \in Grip(d, expiry[d])
      BY Zenon, <2>2, <2>3, QuorumsMeet
    <2>5. value(c) = value(d)
      BY Zenon, <2>4 DEF Grip
    <2> QED BY Zenon, <2>5 DEF value
  <1> QED BY <1>1, LockInvariant, PTL

\* Fencing: a handle's token is above that of every handle returned before its
\* attempt began, for any number of nodes and whatever quorums answered.
THEOREM TokensGrow == Spec => []LaterTokensLarger
  <1>1. LockInv => LaterTokensLarger
    BY Zenon DEF LockInv, ClientInv, Floored, LaterTokensLarger
  <1> QED BY <1>1, LockInvariant, PTL
=============================================================================
