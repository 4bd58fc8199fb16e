---------------------------- MODULE BrokerProofs ----------------------------
(***************************************************************************)
(* What MessageBroker's run checks on a small instance, proved for any     *)
(* number of members and partitions, any attempts and any faults.          *)
(*                                                                         *)
(* The argument: nothing in the group ever points past an unsettled        *)
(* record.  Every committed offset, every read position and every call     *)
(* under way, awaited or not, has only settled records below it, or ones   *)
(* left behind for good; so whichever call takes effect next, and whoever  *)
(* commits, nothing is overtaken.  That holds although two members may     *)
(* work on the same partition after a rebalance, and although a commit may *)
(* move backwards.                                                         *)
(***************************************************************************)
EXTENDS MessageBroker, TLAPS

Places == {"out", "loop", "handling", "idle", "exited", "left"}
Numbered == Nat \cup {None}

\* What Now is, and what a stretch of the read loop makes of it.
Reading == [committed : [Partition -> Numbered], positions : [Member -> [Partition -> Numbered]],
            passed : [Partition -> SUBSET Nat],
            pc : [Member -> Places], pending : [Member -> BOOLEAN]]

Calls == [partition : Partition, offset : Nat, attempts : Nat,
          phase : {"attempt", "sleep", "giveUp"}]

\* Every offset below n is in S.
Below(n, S) == 0 .. n - 1 \subseteq S

\* With R[p] settled, no offset of g points past what is settled or passed.
SoundReading(g, R) ==
    \A p \in Partition :
        /\ Below(g.committed[p], R[p] \cup g.passed[p])
        /\ \A n \in Member : Below(g.positions[n][p], R[p] \cup g.passed[p])

\* A call has only offsets of S below it, and it gives up for a reason.
SoundCall(c, S, t) ==
    /\ c \in Calls
    /\ c.offset \in Offset(c.partition)
    /\ Below(c.offset, S[c.partition])
    /\ c.attempts <= t[c.partition][c.offset]
    /\ c.phase = "giveUp" => \/ <<c.partition, c.offset>> \in Undecodable
                             \/ t[c.partition][c.offset] >= MaxAttempts

\* What has been settled is settled in order, and dead for a reason.
SoundEffects(h, d, S, t) ==
    \A p \in Partition :
        /\ \A o \in h[p] \cup d[p] : o \in Offset(p) /\ Below(o + 1, S[p])
        /\ \A o \in d[p] : <<p, o>> \in Undecodable \/ t[p][o] >= MaxAttempts

Tries(t) == DOMAIN t = Partition /\ \A p \in Partition : t[p] \in [Offset(p) -> Nat]

Done == [p \in Partition |-> Settled(p)]
Reached == [p \in Partition |-> Settled(p) \cup passed[p]]

TypeInv ==
    /\ log \in [Partition -> Nat] /\ \A p \in Partition : log[p] <= MaxLog[p]
    /\ Now \in Reading
    /\ assigned \in [Member -> SUBSET Partition]
    /\ todo \in [Member -> SUBSET Partition]
    /\ delivered \in [Member -> BOOLEAN] /\ failed \in [Member -> BOOLEAN]
    /\ DOMAIN current = Member
    /\ \A x \in orphans : x.member \in Member /\ x = [member |-> x.member, call |-> x.call, since |-> x.since]
    /\ handled \in [Partition -> SUBSET Nat] /\ dead \in [Partition -> SUBSET Nat]
    /\ Tries(tried)

\* The inductive invariant.
BrokerInv ==
    /\ TypeInv
    /\ SoundReading(Now, Done)
    /\ \A m \in Member : pc[m] = "handling" => SoundCall(current[m], Reached, tried)
    /\ \A x \in orphans : SoundCall(x.call, Reached, tried)
    /\ SoundEffects(handled, dead, Reached, tried)

-----------------------------------------------------------------------------
(* The read loop.                                                          *)

\* What stays settled and what stays passed over only ever grows.
LEMMA BelowGrows ==
    ASSUME NEW n \in Int, NEW S, NEW T, Below(n, S), S \subseteq T
    PROVE  Below(n, T)
  BY Zenon DEF Below

\* Nothing is below a position not read yet.
LEMMA BelowNone ==
    ASSUME NEW S PROVE Below(None, S)
  BY DEF Below, None

\* The record at a position joins those below it.
LEMMA BelowNext ==
    ASSUME NEW n \in Nat, NEW S, Below(n, S), n \in S PROVE Below(n + 1, S)
  <1>1. 0 .. (n + 1) - 1 \subseteq (0 .. n - 1) \cup {n}
    OBVIOUS
  <1> QED BY Zenon, <1>1 DEF Below

\* g with the members' places and flags replaced.
Placed(g, at, wk) == [committed |-> g.committed, positions |-> g.positions, passed |-> g.passed,
                      pc |-> at, pending |-> wk]

\* A member's place in its loop says nothing of its offsets.
LEMMA PlacedSound ==
    ASSUME NEW g \in Reading, NEW at \in [Member -> Places], NEW wk \in [Member -> BOOLEAN],
           NEW R, SoundReading(g, R)
    PROVE  /\ Placed(g, at, wk) \in Reading
           /\ SoundReading(Placed(g, at, wk), R)
           /\ Placed(g, at, wk).passed = g.passed /\ Placed(g, at, wk).pc = at
           /\ Placed(g, at, wk).committed = g.committed
           /\ Placed(g, at, wk).positions = g.positions
  BY Zenon DEF Placed, Reading, SoundReading

\* A position is read off a sound position, a sound commit, or the end of the
\* log, in which case what lies below it has been passed.
LEMMA LookedSound ==
    ASSUME NEW m \in Member, NEW list \in SUBSET Partition, NEW g \in Reading,
           NEW R \in [Partition -> SUBSET Nat], SoundReading(g, R),
           log \in [Partition -> Nat]
    PROVE  LET h == Looked(m, list, g) IN
           /\ h \in Reading
           /\ SoundReading(h, R)
           /\ h.committed = g.committed /\ h.pc = g.pc /\ h.pending = g.pending
           /\ \A p \in Partition : g.passed[p] \subseteq h.passed[p]
           /\ \A p \in list : /\ h.positions[m][p] = From(m, p, g)
                            /\ From(m, p, g) \in Nat
  <1> DEFINE h == Looked(m, list, g)
             pos == [p \in Partition |-> IF p \in list THEN From(m, p, g) ELSE g.positions[m][p]]
             psd == [p \in Partition |->
                        IF p \in list /\ Unresolved(m, p, g)
                        THEN g.passed[p] \cup 0 .. startOffset(m, p) - 1 ELSE g.passed[p]]
  <1>0. /\ h = [g EXCEPT !.positions = [g.positions EXCEPT ![m] = pos], !.passed = psd]
        /\ None = -1
    BY Zenon DEF Looked, Reading, None
  <1>1. \A p \in Partition : startOffset(m, p) \in Nat
    BY Zenon DEF startOffset
  <1>2. \A p \in Partition : From(m, p, g) \in Nat
    BY <1>1, <1>0 DEF From, Unresolved, Reading, Numbered
  <1>3. pos \in [Partition -> Numbered] /\ psd \in [Partition -> SUBSET Nat]
    BY <1>1, <1>2 DEF Reading, Numbered
  <1> HIDE DEF h, pos, psd
  <1>e. h = [committed |-> g.committed, positions |-> [g.positions EXCEPT ![m] = pos],
             passed |-> psd, pc |-> g.pc, pending |-> g.pending]
    BY Zenon, <1>0 DEF Reading
  <1>p. [g.positions EXCEPT ![m] = pos] \in [Member -> [Partition -> Numbered]]
    BY Zenon, <1>3 DEF Reading
  <1>4. h \in Reading
    BY Zenon, <1>e, <1>p, <1>3 DEF Reading
  <1>5. /\ h.committed = g.committed /\ h.pc = g.pc /\ h.pending = g.pending
        /\ h.passed = psd /\ h.positions = [g.positions EXCEPT ![m] = pos]
    BY Zenon, <1>e
  <1>6. \A p \in Partition : g.passed[p] \subseteq h.passed[p]
    BY Zenon, <1>5 DEF psd
  <1>7. \A p \in Partition : Below(pos[p], R[p] \cup psd[p])
    <2> SUFFICES ASSUME NEW p \in Partition PROVE Below(pos[p], R[p] \cup psd[p])
      BY Zenon
    <2>1. CASE p \in list /\ Unresolved(m, p, g)
      BY Zenon, <2>1, <1>1 DEF Below, From, pos, psd
    <2>2. CASE p \in list /\ ~Unresolved(m, p, g)
      BY Zenon, <2>2 DEF Below, From, pos, psd, SoundReading, Unresolved
    <2>3. CASE p \notin list
      BY Zenon, <2>3 DEF Below, pos, psd, SoundReading
    <2> QED BY Zenon, <2>1, <2>2, <2>3
  <1>8. \A n \in Member, p \in Partition : h.positions[n][p] = IF n = m THEN pos[p] ELSE g.positions[n][p]
    BY Zenon, <1>5 DEF Reading
  <1>9. SoundReading(h, R)
    <2> SUFFICES ASSUME NEW p \in Partition, NEW n \in Member
                 PROVE  /\ Below(h.committed[p], R[p] \cup h.passed[p])
                        /\ Below(h.positions[n][p], R[p] \cup h.passed[p])
      BY Zenon DEF SoundReading
    <2>1. g.committed[p] \in Int /\ g.positions[n][p] \in Int
      BY <1>0 DEF Reading, Numbered
    <2>2. R[p] \cup g.passed[p] \subseteq R[p] \cup h.passed[p]
      BY Zenon, <1>6
    <2>3. Below(g.committed[p], R[p] \cup g.passed[p]) /\ Below(g.positions[n][p], R[p] \cup g.passed[p])
      BY Zenon DEF SoundReading
    <2>4. Below(g.committed[p], R[p] \cup h.passed[p])
      BY Zenon, <2>1, <2>2, <2>3, BelowGrows
    <2>5. Below(g.positions[n][p], R[p] \cup h.passed[p])
      BY Zenon, <2>1, <2>2, <2>3, BelowGrows
    <2> QED BY Zenon, <2>4, <2>5, <1>5, <1>7, <1>8
  <1>10. \A p \in list : h.positions[m][p] = From(m, p, g)
    BY Zenon, <1>8 DEF pos
  <1> QED BY Zenon, <1>2, <1>4, <1>5, <1>6, <1>9, <1>10 DEF h

\* A call just made, from the position the pass has come to.
Fresh(c, S) ==
    /\ c \in Calls /\ c.offset \in Offset(c.partition)
    /\ Below(c.offset, S[c.partition])
    /\ c.attempts = 0
    /\ c.phase = "giveUp" => <<c.partition, c.offset>> \in Undecodable

\* What a stretch of m's read loop from g leaves, when R is what is settled.
Leaves(m, g, R) ==
    \E h \in Reading : \E c :
        /\ Becomes(h) /\ SoundReading(h, R)
        /\ \A p \in Partition : g.passed[p] \subseteq h.passed[p]
        /\ \A n \in Member : n # m => h.pc[n] = g.pc[n]
        /\ current' = [current EXCEPT ![m] = c]
        /\ h.pc[m] = "handling" => Fresh(c, [p \in Partition |-> R[p] \cup h.passed[p]])
        /\ todo' \in [Member -> SUBSET Partition]
        /\ delivered' \in [Member -> BOOLEAN] /\ failed' \in [Member -> BOOLEAN]

\* A pass that stops at a record handles the next one of its partition.
LEMMA HandlesSound ==
    ASSUME NEW m \in Member, NEW list \in SUBSET Partition, NEW g \in Reading,
           NEW R \in [Partition -> SUBSET Nat], SoundReading(g, R), TypeInv,
           NEW ok \in BOOLEAN, NEW bad \in BOOLEAN, Handles(m, list, g, ok, bad)
    PROVE  Leaves(m, g, R)
  <1>1. PICK p \in Ready(m, list, g) :
          LET seen == {q \in list : q <= p}
          IN  /\ current' = [current EXCEPT ![m] =
                    [partition |-> p, offset |-> From(m, p, g), attempts |-> 0,
                     phase |-> IF <<p, From(m, p, g)>> \in Undecodable THEN "giveUp" ELSE "attempt"]]
              /\ todo' = [todo EXCEPT ![m] = list \ seen]
              /\ delivered' = [delivered EXCEPT ![m] = ok]
              /\ failed' = [failed EXCEPT ![m] = bad]
              /\ Becomes([Looked(m, seen, g) EXCEPT !.pc[m] = "handling"])
    BY Zenon DEF Handles
  <1> DEFINE seen == {q \in list : q <= p}
             o == From(m, p, g)
             c == [partition |-> p, offset |-> o, attempts |-> 0,
                   phase |-> IF <<p, o>> \in Undecodable THEN "giveUp" ELSE "attempt"]
  <1>2. p \in list /\ p \in Partition /\ o < log[p] /\ p <= p
    BY BrokerAssumption DEF Ready
  <1>3. p \in seen /\ seen \in SUBSET Partition
    BY Zenon, <1>2
  <1>4. Becomes([Looked(m, seen, g) EXCEPT !.pc[m] = "handling"]) /\ current' = [current EXCEPT ![m] = c]
    BY Zenon, <1>1
  <1> HIDE DEF seen, o
  <1>5. log \in [Partition -> Nat]
    BY Zenon DEF TypeInv
  <1>6. PICK k \in Reading :
          /\ k = Looked(m, seen, g) /\ SoundReading(k, R) /\ k.pc = g.pc
          /\ \A q \in Partition : g.passed[q] \subseteq k.passed[q]
          /\ \A q \in seen : k.positions[m][q] = From(m, q, g) /\ From(m, q, g) \in Nat
    BY Zenon, <1>3, <1>5, LookedSound
  <1>7. PICK h : h = [k EXCEPT !.pc[m] = "handling"]
    BY Zenon
  <1>b. /\ h \in Reading /\ SoundReading(h, R)
        /\ h.positions = k.positions /\ h.passed = k.passed
        /\ h.pc = [g.pc EXCEPT ![m] = "handling"]
    <2>1. h = Placed(k, [k.pc EXCEPT ![m] = "handling"], k.pending)
      BY Zenon, <1>7 DEF Placed, Reading
    <2>2. [k.pc EXCEPT ![m] = "handling"] \in [Member -> Places] /\ k.pending \in [Member -> BOOLEAN]
      BY Zenon DEF Reading, Places
    <2> QED BY <2>1, <2>2, <1>6, PlacedSound
  <1>8. o \in Offset(p) /\ o \in Nat
    BY <1>2, <1>3, <1>6, BrokerAssumption DEF Offset, TypeInv, o
  <1>9. Below(o, R[p] \cup h.passed[p])
    BY Zenon, <1>2, <1>3, <1>6, <1>b DEF SoundReading, o
  <1>10. Fresh(c, [q \in Partition |-> R[q] \cup h.passed[q]])
    BY Zenon, <1>2, <1>8, <1>9 DEF Fresh, Calls
  <1>11. /\ todo' \in [Member -> SUBSET Partition]
         /\ delivered' \in [Member -> BOOLEAN] /\ failed' \in [Member -> BOOLEAN]
    BY Zenon, <1>1 DEF TypeInv
  <1>12. \A n \in Member : n # m => h.pc[n] = g.pc[n]
    BY Zenon, <1>b DEF Reading
  <1>13. Becomes(h)
    BY Zenon, <1>4, <1>6, <1>7
  <1> HIDE DEF c
  <1> QED
    BY Zenon, <1>4, <1>6, <1>b, <1>10, <1>11, <1>12, <1>13 DEF Leaves

\* The end of a pass: no call is left, and the flags are flags.
LEMMA PassEndsTyped ==
    ASSUME NEW m \in Member, NEW bad \in BOOLEAN, TypeInv, PassEnds(m, bad)
    PROVE  /\ current' = [current EXCEPT ![m] = Nothing]
           /\ todo' \in [Member -> SUBSET Partition]
           /\ delivered' \in [Member -> BOOLEAN] /\ failed' \in [Member -> BOOLEAN]
  BY Zenon DEF PassEnds, TypeInv

\* A pass that finds nothing goes to sleep, or not if it was notified.
LEMMA RestsSound ==
    ASSUME NEW m \in Member, NEW list \in SUBSET Partition, NEW g \in Reading,
           NEW R \in [Partition -> SUBSET Nat], SoundReading(g, R), TypeInv,
           NEW bad \in BOOLEAN, Rests(m, list, g, bad)
    PROVE  Leaves(m, g, R)
  <1>1. PassEnds(m, bad) /\ Becomes(idle(m, Looked(m, list, g)))
    BY Zenon DEF Rests
  <1>2. log \in [Partition -> Nat]
    BY Zenon DEF TypeInv
  <1>3. PICK k \in Reading :
          /\ k = Looked(m, list, g) /\ SoundReading(k, R) /\ k.pc = g.pc
          /\ \A q \in Partition : g.passed[q] \subseteq k.passed[q]
    BY Zenon, <1>2, LookedSound
  <1>4. PICK h : h = idle(m, k)
    BY Zenon
  <1> DEFINE v == IF k.pending[m] \/ Stopped(m) THEN "loop" ELSE "idle"
  <1>v. v \in {"loop", "idle"} /\ h = [k EXCEPT !.pc[m] = v, !.pending[m] = FALSE]
    BY Zenon, <1>4 DEF idle
  <1> HIDE DEF v
  <1>5. PICK w \in {"loop", "idle"} : h = [k EXCEPT !.pc[m] = w, !.pending[m] = FALSE]
    BY Zenon, <1>v
  <1>6. /\ h \in Reading /\ SoundReading(h, R) /\ h.passed = k.passed
        /\ h.pc = [g.pc EXCEPT ![m] = w]
    <2>1. PICK at \in [Member -> Places], wk \in [Member -> BOOLEAN] :
            at = [k.pc EXCEPT ![m] = w] /\ wk = [k.pending EXCEPT ![m] = FALSE]
      BY Zenon DEF Reading, Places
    <2>2. h = Placed(k, at, wk)
      BY Zenon, <1>5, <2>1 DEF Placed, Reading
    <2>3. h \in Reading /\ SoundReading(h, R) /\ h.passed = k.passed /\ h.pc = at
      BY Zenon, <2>2, <1>3, PlacedSound
    <2> QED BY Zenon, <2>1, <2>3, <1>3
  <1>7. /\ \A n \in Member : n # m => h.pc[n] = g.pc[n]
        /\ h.pc[m] # "handling"
    BY Zenon, <1>6 DEF Reading
  <1>8. Becomes(h)
    BY Zenon, <1>1, <1>3, <1>4
  <1>9. /\ current' = [current EXCEPT ![m] = Nothing]
        /\ todo' \in [Member -> SUBSET Partition]
        /\ delivered' \in [Member -> BOOLEAN] /\ failed' \in [Member -> BOOLEAN]
    BY Zenon, <1>1, PassEndsTyped
  <1> QED
    BY Zenon, <1>3, <1>6, <1>7, <1>8, <1>9 DEF Leaves

\* A member that is stopping leaves its loop.
LEMMA ExitsSound ==
    ASSUME NEW m \in Member, NEW g \in Reading,
           NEW R \in [Partition -> SUBSET Nat], SoundReading(g, R), TypeInv, Exits(m, g)
    PROVE  Leaves(m, g, R)
  <1>1. PassEnds(m, FALSE) /\ Becomes([g EXCEPT !.pc[m] = "exited"])
    BY Zenon DEF Exits
  <1>2. PICK h : h = [g EXCEPT !.pc[m] = "exited"]
    BY Zenon
  <1>3. /\ h \in Reading /\ SoundReading(h, R) /\ h.passed = g.passed
        /\ h.pc = [g.pc EXCEPT ![m] = "exited"]
    <2>1. h = Placed(g, [g.pc EXCEPT ![m] = "exited"], g.pending)
      BY Zenon, <1>2 DEF Placed, Reading
    <2>2. [g.pc EXCEPT ![m] = "exited"] \in [Member -> Places] /\ g.pending \in [Member -> BOOLEAN]
      BY Zenon DEF Reading, Places
    <2> QED BY <2>1, <2>2, PlacedSound
  <1>4. /\ \A n \in Member : n # m => h.pc[n] = g.pc[n]
        /\ h.pc[m] # "handling"
    BY Zenon, <1>3 DEF Reading
  <1>5. /\ current' = [current EXCEPT ![m] = Nothing]
        /\ todo' \in [Member -> SUBSET Partition]
        /\ delivered' \in [Member -> BOOLEAN] /\ failed' \in [Member -> BOOLEAN]
    BY Zenon, <1>1, PassEndsTyped
  <1>6. Becomes(h) /\ \A p \in Partition : g.passed[p] \subseteq h.passed[p]
    BY Zenon, <1>1, <1>2, <1>3
  <1> QED
    BY Zenon, <1>3, <1>4, <1>5, <1>6 DEF Leaves

\* A pass over the assigned partitions, however it ends.
LEMMA PassSound ==
    ASSUME NEW m \in Member, NEW list \in SUBSET Partition, NEW g \in Reading,
           NEW R \in [Partition -> SUBSET Nat], SoundReading(g, R), TypeInv, Pass(m, list, g)
    PROVE  Leaves(m, g, R)
  <1>1. CASE Exits(m, g)
    BY Zenon, <1>1, ExitsSound
  <1>2. CASE Handles(m, list, g, FALSE, FALSE)
    BY Zenon, <1>2, HandlesSound
  <1>3. CASE Rests(m, list, g, FALSE)
    BY Zenon, <1>3, RestsSound
  <1> QED BY Zenon, <1>1, <1>2, <1>3 DEF Pass

\* The loop goes on where the record it was handling left off.
LEMMA ResumeSound ==
    ASSUME NEW m \in Member, NEW g \in Reading, NEW R \in [Partition -> SUBSET Nat],
           SoundReading(g, R), TypeInv, NEW ok \in BOOLEAN, NEW bad \in BOOLEAN,
           Resume(m, g, ok, bad)
    PROVE  Leaves(m, g, R)
  <1>t. todo[m] \in SUBSET Partition /\ assigned[m] \in SUBSET Partition /\ log \in [Partition -> Nat]
    BY Zenon DEF TypeInv
  <1>1. CASE Exits(m, g)
    BY Zenon, <1>1, ExitsSound
  <1>2. CASE Handles(m, todo[m], g, ok, bad)
    BY Zenon, <1>2, <1>t, HandlesSound
  <1>3. CASE Rests(m, todo[m], g, bad)
    BY Zenon, <1>3, <1>t, RestsSound
  <1>4. CASE Pass(m, assigned[m], Looked(m, todo[m], g))
    <2>1. PICK k \in Reading :
            /\ k = Looked(m, todo[m], g) /\ SoundReading(k, R) /\ k.pc = g.pc
            /\ \A q \in Partition : g.passed[q] \subseteq k.passed[q]
      BY Zenon, <1>t, LookedSound
    <2>2. Leaves(m, k, R)
      BY Zenon, <2>1, <1>4, <1>t, PassSound
    <2> QED BY Zenon, <2>1, <2>2 DEF Leaves
  <1> QED BY Zenon, <1>1, <1>2, <1>3, <1>4 DEF Resume

-----------------------------------------------------------------------------
(* The handler.                                                            *)

\* What a step of a call, awaited or not, leaves behind it.
Landed ==
    /\ handled' \in [Partition -> SUBSET Nat] /\ dead' \in [Partition -> SUBSET Nat]
    /\ Tries(tried')
    /\ \A p \in Partition : Done[p] \subseteq Done'[p]
    /\ \A p \in Partition : \A o \in Offset(p) : tried[p][o] <= tried'[p][o]
    /\ SoundEffects(handled', dead', [p \in Partition |-> Done'[p] \cup passed[p]], tried')

\* Effects stay explained when more is settled and more was tried.
LEMMA EffectsGrow ==
    ASSUME NEW h \in [Partition -> SUBSET Nat], NEW d \in [Partition -> SUBSET Nat],
           NEW S, NEW T, NEW t, NEW u, Tries(t), Tries(u), SoundEffects(h, d, S, t),
           \A p \in Partition : S[p] \subseteq T[p],
           \A p \in Partition : \A o \in Offset(p) : t[p][o] <= u[p][o]
    PROVE  SoundEffects(h, d, T, u)
  <1> SUFFICES ASSUME NEW p \in Partition
               PROVE  /\ \A o \in h[p] \cup d[p] : o \in Offset(p) /\ Below(o + 1, T[p])
                      /\ \A o \in d[p] : <<p, o>> \in Undecodable \/ u[p][o] >= MaxAttempts
    BY Zenon DEF SoundEffects
  <1>1. ASSUME NEW o \in h[p] \cup d[p] PROVE o \in Offset(p) /\ Below(o + 1, T[p])
    BY Zenon, <1>1 DEF SoundEffects, Below
  <1>2. ASSUME NEW o \in d[p] PROVE <<p, o>> \in Undecodable \/ u[p][o] >= MaxAttempts
    <2>1. o \in Offset(p) /\ (<<p, o>> \in Undecodable \/ t[p][o] >= MaxAttempts)
      BY Zenon, <1>2 DEF SoundEffects
    <2>2. t[p][o] \in Nat /\ u[p][o] \in Nat /\ t[p][o] <= u[p][o]
      BY Zenon, <2>1 DEF Tries
    <2> QED BY <2>1, <2>2, BrokerAssumption
  <1> QED BY Zenon, <1>1, <1>2

\* So does a call in flight.
LEMMA CallGrows ==
    ASSUME NEW c, NEW S, NEW T, NEW t, NEW u, Tries(t), Tries(u), SoundCall(c, S, t),
           \A p \in Partition : S[p] \subseteq T[p],
           \A p \in Partition : \A o \in Offset(p) : t[p][o] <= u[p][o]
    PROVE  SoundCall(c, T, u)
  <1>1. c.partition \in Partition /\ c.offset \in Nat /\ c.attempts \in Nat
    BY Zenon DEF SoundCall, Calls
  <1>2. /\ t[c.partition][c.offset] \in Nat /\ u[c.partition][c.offset] \in Nat
        /\ t[c.partition][c.offset] <= u[c.partition][c.offset]
    BY Zenon, <1>1 DEF SoundCall, Tries
  <1>3. Below(c.offset, T[c.partition])
    BY <1>1, BelowGrows DEF SoundCall
  <1> QED BY <1>1, <1>2, <1>3, BrokerAssumption DEF SoundCall

\* And so do the positions read from.
LEMMA ReadingGrows ==
    ASSUME NEW g \in Reading, NEW R, NEW Q, SoundReading(g, R),
           \A p \in Partition : R[p] \subseteq Q[p]
    PROVE  SoundReading(g, Q)
  BY Zenon DEF SoundReading, Below

\* A call that leaves its effects alone leaves what they mean alone.
LEMMA NothingLands ==
    ASSUME BrokerInv, UNCHANGED <<handled, dead, tried>>
    PROVE  Landed /\ Done' = Done
  <1>1. Done' = Done
    BY Zenon DEF Done, Settled
  <1>2. /\ handled' = handled /\ dead' = dead /\ tried' = tried
        /\ handled \in [Partition -> SUBSET Nat] /\ dead \in [Partition -> SUBSET Nat]
        /\ Tries(tried)
    BY Zenon DEF BrokerInv, TypeInv
  <1>3. Reached = [p \in Partition |-> Done'[p] \cup passed[p]]
    BY Zenon, <1>1 DEF Done, Reached
  <1>4. SoundEffects(handled', dead', [p \in Partition |-> Done'[p] \cup passed[p]], tried')
    BY Zenon, <1>2, <1>3 DEF BrokerInv
  <1>5. \A p \in Partition : \A o \in Offset(p) : tried[p][o] <= tried'[p][o]
    BY <1>2 DEF Tries
  <1> QED BY Zenon, <1>1, <1>2, <1>4, <1>5 DEF Landed

\* One offset of a partition has been settled, in order and for a reason.
LEMMA OneLands ==
    ASSUME BrokerInv, NEW p \in Partition, NEW o \in Offset(p), o \in Nat, Below(o, Reached[p]),
           \/ handled' = [handled EXCEPT ![p] = @ \cup {o}] /\ dead' = dead
           \/ /\ dead' = [dead EXCEPT ![p] = @ \cup {o}] /\ handled' = handled
              /\ <<p, o>> \in Undecodable \/ tried[p][o] >= MaxAttempts,
           tried' = tried
    PROVE  Landed /\ o \in Done'[p]
  <1>1. /\ handled \in [Partition -> SUBSET Nat] /\ dead \in [Partition -> SUBSET Nat]
        /\ Tries(tried) /\ SoundEffects(handled, dead, Reached, tried)
    BY Zenon DEF BrokerInv, TypeInv
  <1>2. handled' \in [Partition -> SUBSET Nat] /\ dead' \in [Partition -> SUBSET Nat]
    BY Zenon, <1>1
  <1>3. \A q \in Partition : Done'[q] = IF q = p THEN Done[q] \cup {o} ELSE Done[q]
    BY Zenon, <1>1 DEF Done, Settled
  <1>4. \A q \in Partition : \A i \in Offset(q) : tried[q][i] <= tried'[q][i]
    BY <1>1 DEF Tries
  <1> DEFINE T == [q \in Partition |-> Done'[q] \cup passed[q]]
  <1>5. \A q \in Partition : T[q] = IF q = p THEN Reached[q] \cup {o} ELSE Reached[q]
    BY Zenon, <1>3 DEF Done, Reached
  <1> HIDE DEF T
  <1>6. SoundEffects(handled', dead', T, tried')
    <2> SUFFICES ASSUME NEW q \in Partition
                 PROVE  /\ \A i \in handled'[q] \cup dead'[q] : i \in Offset(q) /\ Below(i + 1, T[q])
                        /\ \A i \in dead'[q] : <<q, i>> \in Undecodable \/ tried'[q][i] >= MaxAttempts
      BY Zenon DEF SoundEffects
    <2>1. ASSUME NEW i \in handled'[q] \cup dead'[q] PROVE i \in Offset(q) /\ Below(i + 1, T[q])
      <3>1. CASE q = p /\ i = o
        <4>1. 0 .. (o + 1) - 1 \subseteq (0 .. o - 1) \cup {o}
          OBVIOUS
        <4>2. 0 .. o - 1 \subseteq Reached[p]
          BY Zenon DEF Below
        <4>3. T[p] = Reached[p] \cup {o}
          BY Zenon, <1>5
        <4> QED BY Zenon, <3>1, <4>1, <4>2, <4>3 DEF Below
      <3>2. CASE ~(q = p /\ i = o)
        <4>1. i \in handled[q] \cup dead[q]
          BY <2>1, <3>2, <1>1
        <4>2. i \in Offset(q) /\ Below(i + 1, Reached[q])
          BY Zenon, <4>1, <1>1 DEF SoundEffects
        <4>3. Reached[q] \subseteq T[q]
          BY Zenon, <1>5
        <4> QED BY Zenon, <4>2, <4>3 DEF Below
      <3> QED BY Zenon, <3>1, <3>2
    <2>2. ASSUME NEW i \in dead'[q] PROVE <<q, i>> \in Undecodable \/ tried'[q][i] >= MaxAttempts
      <3>1. CASE i \in dead[q]
        BY Zenon, <3>1, <1>1 DEF SoundEffects
      <3>2. CASE i \notin dead[q]
        <4>1. dead' # dead
          BY Zenon, <3>2, <2>2
        <4>2. dead' = [dead EXCEPT ![p] = @ \cup {o}]
          BY Zenon, <4>1
        <4>3. q = p /\ i = o
          BY Zenon, <3>2, <2>2, <4>2, <1>1
        <4>4. <<p, o>> \in Undecodable \/ tried[p][o] >= MaxAttempts
          BY Zenon, <4>1
        <4> QED BY Zenon, <4>3, <4>4
      <3> QED BY Zenon, <3>1, <3>2
    <2> QED BY Zenon, <2>1, <2>2
  <1>7. \A q \in Partition : Done[q] \subseteq Done'[q]
    BY Zenon, <1>3
  <1>8. o \in Done'[p]
    BY Zenon, <1>3
  <1> QED BY Zenon, <1>1, <1>2, <1>4, <1>6, <1>7, <1>8 DEF Landed, T

\* A failed attempt is counted.
LEMMA FailureLands ==
    ASSUME BrokerInv, NEW p \in Partition, NEW o \in Offset(p),
           UNCHANGED <<handled, dead>>, tried' = [tried EXCEPT ![p][o] = @ + 1]
    PROVE  /\ Landed /\ Done' = Done
           /\ tried'[p][o] = tried[p][o] + 1 /\ tried[p][o] \in Nat
  <1>1. /\ handled \in [Partition -> SUBSET Nat] /\ dead \in [Partition -> SUBSET Nat]
        /\ Tries(tried) /\ SoundEffects(handled, dead, Reached, tried)
    BY Zenon DEF BrokerInv, TypeInv
  <1>2. Done' = Done
    BY Zenon DEF Done, Settled
  <1>3. \A q \in Partition : tried'[q] = IF q = p THEN [tried[p] EXCEPT ![o] = @ + 1] ELSE tried[q]
    BY Zenon, <1>1 DEF Tries
  <1>4. Tries(tried')
    BY <1>1, <1>3 DEF Tries
  <1>5. tried'[p][o] = tried[p][o] + 1 /\ tried[p][o] \in Nat
    BY Zenon, <1>1, <1>3 DEF Tries
  <1>6. \A q \in Partition : \A i \in Offset(q) : tried[q][i] <= tried'[q][i]
    BY <1>1, <1>3 DEF Tries
  <1>7. \A q \in Partition : Reached[q] \subseteq [r \in Partition |-> Done'[r] \cup passed[r]][q]
    BY Zenon, <1>2 DEF Done, Reached
  <1>8. SoundEffects(handled, dead, [r \in Partition |-> Done'[r] \cup passed[r]], tried')
    BY Zenon, <1>1, <1>4, <1>6, <1>7, EffectsGrow
  <1> QED BY Zenon, <1>1, <1>2, <1>4, <1>5, <1>6, <1>8 DEF Landed

\* A step of a sound call, awaited or not: its effects land in order, a
\* resolved one has settled its record, and one that goes on is still sound.
LEMMA DispatchSound ==
    ASSUME BrokerInv, NEW m \in Member, NEW c, SoundCall(c, Reached, tried),
           NEW verdict, NEW next, dispatch(m, c, verdict, next)
    PROVE  /\ Landed
           /\ verdict = "resolved" => c.offset \in Done'[c.partition]
           /\ verdict = "running" =>
                 SoundCall(next, [p \in Partition |-> Done'[p] \cup passed[p]], tried')
  <1> DEFINE p == c.partition
             o == c.offset
             T == [q \in Partition |-> Done'[q] \cup passed[q]]
  <1>1. /\ p \in Partition /\ o \in Nat /\ o \in Offset(p) /\ c.attempts \in Nat
        /\ Below(o, Reached[p]) /\ c.attempts <= tried[p][o]
    BY Zenon DEF SoundCall, Calls
  <1>2. Tries(tried)
    BY Zenon DEF BrokerInv, TypeInv
  <1>3. tried[p][o] \in Nat
    BY Zenon, <1>1, <1>2 DEF Tries
  <1>4. c = [partition |-> p, offset |-> o, attempts |-> c.attempts, phase |-> c.phase]
    BY Zenon DEF SoundCall, Calls
  <1>5. ASSUME Landed PROVE SoundCall(c, T, tried')
    <2>1. \A q \in Partition : Reached[q] \subseteq T[q]
      BY Zenon, <1>5 DEF Landed, Done, Reached
    <2> HIDE DEF T, p, o
    <2> QED BY Zenon, <1>2, <1>5, <2>1, CallGrows DEF Landed
  <1>6. CASE Attempt(m, c, verdict, next)
    <2>1. CASE /\ verdict = "resolved"
               /\ handled' = [handled EXCEPT ![p] = @ \cup {o}]
               /\ UNCHANGED <<dead, tried, faults>>
      BY Zenon, <2>1, <1>1, OneLands
    <2>2. CASE /\ tried' = [tried EXCEPT ![p][o] = @ + 1]
               /\ next = FailedOnce(c)
               /\ verdict = IF next.phase = "sleep" /\ aborted[m] THEN "rejected" ELSE "running"
               /\ UNCHANGED <<handled, dead>>
      <3>1. Landed /\ tried'[p][o] = tried[p][o] + 1
        BY Zenon, <2>2, <1>1, FailureLands
      <3>2. SoundCall(c, T, tried')
        BY Zenon, <3>1, <1>5
      <3>3. next = [partition |-> p, offset |-> o, attempts |-> c.attempts + 1,
                    phase |-> IF c.attempts + 1 >= MaxAttempts THEN "giveUp" ELSE "sleep"]
        BY Zenon, <2>2, <1>4 DEF FailedOnce, Exhausted
      <3> HIDE DEF T
      <3>4. /\ next.partition = p /\ next.offset = o /\ next.attempts = c.attempts + 1
            /\ next \in Calls
        BY <3>3, <1>1 DEF Calls
      <3>5. next.phase = "giveUp" => tried'[p][o] >= MaxAttempts
        BY <3>1, <3>3, <1>1, <1>3, BrokerAssumption
      <3>a. /\ o \in Offset(p) /\ Below(o, T[p]) /\ c.attempts <= tried[p][o]
        BY Zenon, <3>2, <1>1 DEF SoundCall
      <3>b. c.attempts + 1 <= tried'[p][o]
        BY <3>1, <3>a, <1>1, <1>3
      <3> HIDE DEF p, o
      <3>6. SoundCall(next, T, tried')
        BY Zenon, <3>a, <3>b, <3>4, <3>5 DEF SoundCall
      <3> QED BY Zenon, <2>2, <3>1, <3>6 DEF T
    <2> QED BY Zenon, <2>1, <2>2, <1>6 DEF Attempt
  <1>7. CASE Sleep(m, c, verdict, next)
    <2>1. /\ next = Awake(c) /\ UNCHANGED <<handled, dead, tried>> /\ verdict # "resolved"
      BY Zenon, <1>7 DEF Sleep, effects
    <2>2. Landed
      BY Zenon, <2>1, NothingLands
    <2>3. SoundCall(c, T, tried')
      BY Zenon, <2>2, <1>5
    <2>4. next = [partition |-> p, offset |-> o, attempts |-> c.attempts, phase |-> "attempt"]
      BY Zenon, <2>1, <1>4 DEF Awake
    <2> HIDE DEF T
    <2>5. SoundCall(next, T, tried')
      BY Zenon, <2>3, <2>4, <1>1 DEF SoundCall, Calls
    <2> QED BY Zenon, <2>1, <2>2, <2>5 DEF T
  <1>8. CASE GiveUp(m, c, verdict, next)
    <2>1. CASE /\ verdict = "resolved"
               /\ dead' = [dead EXCEPT ![p] = @ \cup {o}]
               /\ UNCHANGED <<handled, tried, faults>>
      <3>1. <<p, o>> \in Undecodable \/ tried[p][o] >= MaxAttempts
        BY Zenon, <1>8 DEF GiveUp, SoundCall
      <3> QED BY Zenon, <2>1, <3>1, <1>1, OneLands
    <2>2. CASE verdict = "rejected" /\ UNCHANGED <<handled, dead, tried>>
      BY Zenon, <2>2, NothingLands
    <2> QED BY Zenon, <2>1, <2>2, <1>8 DEF GiveUp, effects
  <1> QED BY Zenon, <1>6, <1>7, <1>8 DEF dispatch

-----------------------------------------------------------------------------
(* The invariant is inductive.                                             *)

\* What an action has to leave for the invariant to hold again.
LEMMA Preserves ==
    ASSUME BrokerInv, NEW h \in Reading, Becomes(h), SoundReading(h, Done'),
           \A p \in Partition : passed[p] \subseteq h.passed[p],
           Landed,
           \A n \in Member : h.pc[n] = "handling" =>
              \/ pc[n] = "handling" /\ current'[n] = current[n]
              \/ SoundCall(current'[n], [p \in Partition |-> Done'[p] \cup h.passed[p]], tried'),
           \A x \in orphans' :
              \/ x \in orphans
              \/ /\ x.member \in Member
                 /\ x = [member |-> x.member, call |-> x.call, since |-> x.since]
                 /\ SoundCall(x.call, [p \in Partition |-> Done'[p] \cup passed[p]], tried'),
           log' \in [Partition -> Nat], \A p \in Partition : log'[p] <= MaxLog[p],
           assigned' \in [Member -> SUBSET Partition], todo' \in [Member -> SUBSET Partition],
           delivered' \in [Member -> BOOLEAN], failed' \in [Member -> BOOLEAN],
           DOMAIN current' = Member
    PROVE  BrokerInv'
  <1>1. /\ Now' = h /\ passed' = h.passed /\ pc' = h.pc
    BY Zenon DEF Now, Becomes, Reading
  <1>2. /\ handled' \in [Partition -> SUBSET Nat] /\ dead' \in [Partition -> SUBSET Nat]
        /\ Tries(tried') /\ Tries(tried)
        /\ \A p \in Partition : \A o \in Offset(p) : tried[p][o] <= tried'[p][o]
    BY Zenon DEF Landed, BrokerInv, TypeInv
  <1> DEFINE T == [p \in Partition |-> Done'[p] \cup passed[p]]
  <1>3. Reached' = [p \in Partition |-> Done'[p] \cup h.passed[p]]
    BY Zenon, <1>1 DEF Reached, Done
  <1>4. /\ \A p \in Partition : T[p] \subseteq Reached'[p]
        /\ \A p \in Partition : Reached[p] \subseteq Reached'[p]
    BY <1>3 DEF Reached, Done, Landed
  <1>5. SoundEffects(handled', dead', T, tried') /\ \A p \in Partition : \A o \in Offset(p) : tried'[p][o] <= tried'[p][o]
    BY <1>2 DEF Landed, Tries
  <1> HIDE DEF T
  <1>6. SoundEffects(handled', dead', Reached', tried')
    BY Zenon, <1>2, <1>4, <1>5, EffectsGrow
  <1>7. ASSUME NEW c, SoundCall(c, Reached, tried) PROVE SoundCall(c, Reached', tried')
    BY Zenon, <1>2, <1>4, <1>7, CallGrows
  <1>8. ASSUME NEW c, SoundCall(c, T, tried') PROVE SoundCall(c, Reached', tried')
    BY Zenon, <1>2, <1>4, <1>5, <1>8, CallGrows
  <1>9. \A n \in Member : pc'[n] = "handling" => SoundCall(current'[n], Reached', tried')
    BY Zenon, <1>1, <1>3, <1>7 DEF BrokerInv
  <1>10. ASSUME NEW x \in orphans'
         PROVE  /\ x.member \in Member
                /\ x = [member |-> x.member, call |-> x.call, since |-> x.since]
                /\ SoundCall(x.call, Reached', tried')
    BY Zenon, <1>10, <1>7, <1>8 DEF BrokerInv, TypeInv, T
  <1>11. TypeInv'
    BY Zenon, <1>1, <1>2, <1>10 DEF TypeInv
  <1>12. SoundReading(Now', Done')
    BY Zenon, <1>1
  <1> QED BY Zenon, <1>6, <1>9, <1>10, <1>11, <1>12 DEF BrokerInv

\* A stretch of m's read loop, after its effects have landed.
LEMMA StretchPreserves ==
    ASSUME BrokerInv, NEW m \in Member, NEW g \in Reading, Leaves(m, g, Done'), Landed,
           \A p \in Partition : passed[p] \subseteq g.passed[p],
           \A n \in Member : n # m /\ g.pc[n] = "handling" => pc[n] = "handling",
           \A x \in orphans' :
              \/ x \in orphans
              \/ /\ x.member \in Member
                 /\ x = [member |-> x.member, call |-> x.call, since |-> x.since]
                 /\ SoundCall(x.call, [p \in Partition |-> Done'[p] \cup passed[p]], tried'),
           log' = log, assigned' \in [Member -> SUBSET Partition]
    PROVE  BrokerInv'
  <1>0. PICK h \in Reading : \E c :
          /\ Becomes(h) /\ SoundReading(h, Done')
          /\ \A p \in Partition : g.passed[p] \subseteq h.passed[p]
          /\ \A n \in Member : n # m => h.pc[n] = g.pc[n]
          /\ current' = [current EXCEPT ![m] = c]
          /\ h.pc[m] = "handling" => Fresh(c, [p \in Partition |-> Done'[p] \cup h.passed[p]])
          /\ todo' \in [Member -> SUBSET Partition]
          /\ delivered' \in [Member -> BOOLEAN] /\ failed' \in [Member -> BOOLEAN]
    BY Zenon DEF Leaves
  <1>1. PICK c :
          /\ Becomes(h) /\ SoundReading(h, Done')
          /\ \A p \in Partition : g.passed[p] \subseteq h.passed[p]
          /\ \A n \in Member : n # m => h.pc[n] = g.pc[n]
          /\ current' = [current EXCEPT ![m] = c]
          /\ h.pc[m] = "handling" => Fresh(c, [p \in Partition |-> Done'[p] \cup h.passed[p]])
          /\ todo' \in [Member -> SUBSET Partition]
          /\ delivered' \in [Member -> BOOLEAN] /\ failed' \in [Member -> BOOLEAN]
    BY Zenon, <1>0
  <1>2. DOMAIN current = Member /\ log \in [Partition -> Nat] /\ \A p \in Partition : log[p] <= MaxLog[p]
    BY Zenon DEF BrokerInv, TypeInv
  <1>3. DOMAIN current' = Member /\ current'[m] = c /\ \A n \in Member : n # m => current'[n] = current[n]
    BY Zenon, <1>1, <1>2
  <1>4. ASSUME h.pc[m] = "handling"
        PROVE  SoundCall(c, [p \in Partition |-> Done'[p] \cup h.passed[p]], tried')
    <2>1. Fresh(c, [p \in Partition |-> Done'[p] \cup h.passed[p]])
      BY Zenon, <1>1, <1>4
    <2>2. tried'[c.partition][c.offset] \in Nat
      BY <2>1 DEF Fresh, Calls, Landed, Tries
    <2> QED BY <2>1, <2>2 DEF Fresh, SoundCall
  <1>5. \A n \in Member : h.pc[n] = "handling" =>
              \/ pc[n] = "handling" /\ current'[n] = current[n]
              \/ SoundCall(current'[n], [p \in Partition |-> Done'[p] \cup h.passed[p]], tried')
    BY <1>1, <1>3, <1>4
  <1>6. \A p \in Partition : passed[p] \subseteq h.passed[p]
    BY Zenon, <1>1
  <1>7. log' \in [Partition -> Nat] /\ \A p \in Partition : log'[p] <= MaxLog[p]
    BY Zenon, <1>2
  <1> QED BY Zenon, <1>1, <1>3, <1>5, <1>6, <1>7, Preserves

\* An action that only moves members about.
LEMMA ShiftPreserves ==
    ASSUME BrokerInv, NEW h \in Reading, Becomes(h), SoundReading(h, Done), h.passed = passed,
           \A n \in Member : h.pc[n] = "handling" => pc[n] = "handling",
           UNCHANGED <<todo, delivered, failed, current, orphans, handled, dead, tried>>,
           log' \in [Partition -> Nat], \A p \in Partition : log'[p] <= MaxLog[p],
           assigned' \in [Member -> SUBSET Partition]
    PROVE  BrokerInv'
  <1>1. Landed /\ Done' = Done
    BY Zenon, NothingLands
  <1>2. /\ todo' \in [Member -> SUBSET Partition] /\ delivered' \in [Member -> BOOLEAN]
        /\ failed' \in [Member -> BOOLEAN] /\ DOMAIN current' = Member
    BY Zenon DEF BrokerInv, TypeInv
  <1>3. SoundReading(h, Done')
    BY Zenon, <1>1
  <1>4. /\ \A x \in orphans' : x \in orphans
        /\ \A n \in Member : h.pc[n] = "handling" => pc[n] = "handling" /\ current'[n] = current[n]
        /\ \A p \in Partition : passed[p] \subseteq h.passed[p]
    BY Zenon
  <1> QED BY Zenon, <1>1, <1>2, <1>3, <1>4, Preserves

\* h is sound where g is, and the same members have calls under way.
Kept(h, g, R) ==
    /\ h \in Reading /\ SoundReading(h, R) /\ h.passed = g.passed
    /\ \A n \in Member : h.pc[n] = "handling" <=> g.pc[n] = "handling"

\* Waking members moves no offset and starts no call.
LEMMA NotifySound ==
    ASSUME NEW g \in Reading, NEW R, SoundReading(g, R), NEW ms
    PROVE  Kept(notify(ms, g), g, R)
  <1>0. PICK h : h = notify(ms, g)
    BY Zenon
  <1>1. PICK at, wk :
          /\ at = [m \in Member |-> IF m \in ms /\ g.pc[m] = "idle" THEN "loop" ELSE g.pc[m]]
          /\ wk = [m \in Member |-> IF m \in ms THEN g.pc[m] # "idle" ELSE g.pending[m]]
    BY Zenon
  <1>2. h = [g EXCEPT !.pc = at, !.pending = wk]
    BY Zenon, <1>0, <1>1 DEF notify
  <1>3. at \in [Member -> Places] /\ wk \in [Member -> BOOLEAN]
    BY Zenon, <1>1 DEF Reading, Places
  <1>4. h = Placed(g, at, wk)
    BY Zenon, <1>2 DEF Placed, Reading
  <1>5. h \in Reading /\ SoundReading(h, R) /\ h.passed = g.passed /\ h.pc = at
    BY Zenon, <1>3, <1>4, PlacedSound
  <1>6. \A n \in Member : h.pc[n] = "handling" <=> g.pc[n] = "handling"
    BY Zenon, <1>1, <1>5
  <1> QED BY Zenon, <1>0, <1>5, <1>6 DEF Kept

\* A rebalance only takes positions away.
LEMMA RebalanceSound ==
    ASSUME NEW g \in Reading, NEW R, SoundReading(g, R), NEW ms
    PROVE  Kept(rebalance(ms, g), g, R)
  <1>1. PICK pos : pos = [m \in Member |-> [p \in Partition |->
                IF m \in Range(ms) /\ p \notin Deal(ms, m) THEN None ELSE g.positions[m][p]]]
    BY Zenon
  <1>2. PICK k : k = [g EXCEPT !.positions = pos]
    BY Zenon
  <1>3. rebalance(ms, g) = notify(Range(ms), k)
    BY Zenon, <1>1, <1>2 DEF rebalance
  <1>4. pos \in [Member -> [Partition -> Numbered]]
    BY Zenon, <1>1 DEF Reading, Numbered
  <1>5. k = [committed |-> g.committed, positions |-> pos, passed |-> g.passed,
             pc |-> g.pc, pending |-> g.pending]
    BY Zenon, <1>2 DEF Reading
  <1>6. k \in Reading
    BY Zenon, <1>4, <1>5 DEF Reading
  <1>7. SoundReading(k, R)
    <2> SUFFICES ASSUME NEW p \in Partition, NEW n \in Member
                 PROVE  /\ Below(g.committed[p], R[p] \cup g.passed[p])
                        /\ Below(pos[n][p], R[p] \cup g.passed[p])
      BY Zenon, <1>5 DEF SoundReading
    <2>1. pos[n][p] = None \/ pos[n][p] = g.positions[n][p]
      BY Zenon, <1>1
    <2> QED BY Zenon, <2>1, BelowNone DEF SoundReading
  <1>8. Kept(rebalance(ms, g), k, R)
    BY Zenon, <1>3, <1>6, <1>7, NotifySound
  <1> QED BY Zenon, <1>5, <1>8 DEF Kept

\* The empty broker is sound.
LEMMA InitHolds == Init => BrokerInv
  <1> SUFFICES ASSUME Init PROVE BrokerInv
    BY Zenon
  <1>1. TypeInv
    <2>1. Now \in Reading
      BY Zenon DEF Init, Now, Reading, Numbered, Places
    <2>2. Tries(tried)
      BY Zenon DEF Init, Tries
    <2>3. log \in [Partition -> Nat] /\ \A p \in Partition : log[p] <= MaxLog[p]
      BY BrokerAssumption DEF Init
    <2> QED BY Zenon, <2>1, <2>2, <2>3 DEF Init, TypeInv
  <1>2. SoundReading(Now, Done)
    <2>1. \A p \in Partition : Now.committed[p] = None /\ \A n \in Member : Now.positions[n][p] = None
      BY Zenon DEF Init, Now
    <2> QED BY Zenon, <2>1, BelowNone DEF SoundReading
  <1> QED BY Zenon, <1>1, <1>2 DEF Init, BrokerInv, SoundEffects

\* A rebalance deals partitions out to members.
LEMMA AssignedTyped ==
    ASSUME BrokerInv, NEW ms PROVE Assigned(ms) \in [Member -> SUBSET Partition]
  BY Zenon DEF BrokerInv, TypeInv, Assigned, Deal

\* The member's place in its loop, and nothing else, becomes w.
LEMMA MovedSound ==
    ASSUME BrokerInv, NEW m \in Member, NEW w \in Places \ {"handling"},
           NEW h, h = [Now EXCEPT !.pc[m] = w]
    PROVE  /\ h \in Reading /\ SoundReading(h, Done) /\ h.passed = passed
           /\ \A n \in Member : h.pc[n] = "handling" => pc[n] = "handling"
  <1>1. Now \in Reading /\ SoundReading(Now, Done) /\ Now.pc = pc /\ Now.passed = passed
    BY Zenon DEF BrokerInv, TypeInv, Now
  <1>2. PICK g \in Reading : g = Now
    BY Zenon, <1>1
  <1>3. h = Placed(g, [g.pc EXCEPT ![m] = w], g.pending)
    BY Zenon, <1>2 DEF Placed, Reading
  <1>4. [g.pc EXCEPT ![m] = w] \in [Member -> Places] /\ g.pending \in [Member -> BOOLEAN]
    BY Zenon DEF Reading
  <1>5. /\ h \in Reading /\ SoundReading(h, Done) /\ h.passed = g.passed
        /\ h.pc = [g.pc EXCEPT ![m] = w]
    BY <1>1, <1>2, <1>3, <1>4, PlacedSound
  <1> QED BY Zenon, <1>1, <1>2, <1>5 DEF Reading

\* The handler resolved and its record is settled: the commit and the
\* position move to the next record together.
LEMMA CommitSound ==
    ASSUME BrokerInv, NEW m \in Member, NEW p \in Partition, NEW o \in Nat,
           Below(o, Reached[p]), o \in Done'[p], Landed
    PROVE  \A g : g = [Now EXCEPT !.committed[p] = o + 1, !.positions[m][p] = o + 1] =>
                     g \in Reading /\ SoundReading(g, Done') /\ g.passed = passed /\ g.pc = pc
  <1>0. SUFFICES ASSUME NEW g, g = [Now EXCEPT !.committed[p] = o + 1, !.positions[m][p] = o + 1]
                 PROVE  g \in Reading /\ SoundReading(g, Done') /\ g.passed = passed /\ g.pc = pc
    BY Zenon
  <1>1. Now \in Reading /\ SoundReading(Now, Done)
    BY Zenon DEF BrokerInv, TypeInv
  <1>2. PICK k \in Reading : k = Now
    BY Zenon, <1>1
  <1>3. PICK com, pos : /\ com = [k.committed EXCEPT ![p] = o + 1]
                        /\ pos = [k.positions EXCEPT ![m][p] = o + 1]
    BY Zenon
  <1>4. g = [k EXCEPT !.committed = com, !.positions = pos]
    BY Zenon, <1>0, <1>2, <1>3
  <1>5. g = [committed |-> com, positions |-> pos, passed |-> k.passed, pc |-> k.pc,
             pending |-> k.pending]
    BY Zenon, <1>4 DEF Reading
  <1>6. com \in [Partition -> Numbered] /\ pos \in [Member -> [Partition -> Numbered]]
    BY <1>3 DEF Reading, Numbered
  <1>7. g \in Reading /\ g.passed = passed /\ g.pc = pc
    BY Zenon, <1>2, <1>5, <1>6 DEF Reading, Now
  <1>8. SoundReading(k, Done')
    BY Zenon, <1>1, <1>2, ReadingGrows DEF Landed
  <1>9. Below(o + 1, Done'[p] \cup passed[p])
    <2>1. Reached[p] \subseteq Done'[p] \cup passed[p]
      BY Zenon DEF Reached, Landed, Done
    <2>2. Below(o, Done'[p] \cup passed[p])
      BY <2>1, BelowGrows
    <2> QED BY Zenon, <2>2, BelowNext
  <1>10. SoundReading(g, Done')
    <2> SUFFICES ASSUME NEW q \in Partition
                 PROVE  /\ Below(com[q], Done'[q] \cup passed[q])
                        /\ \A n \in Member : Below(pos[n][q], Done'[q] \cup passed[q])
      <3>1. g.committed = com /\ g.positions = pos
        BY Zenon, <1>5
      <3>2. g.passed = passed
        BY Zenon, <1>7
      <3> QED BY <3>1, <3>2, Zenon DEF SoundReading
    <2>1. k.passed = passed
      BY Zenon, <1>2 DEF Now
    <2>a. k.committed \in [Partition -> Numbered] /\ k.positions \in [Member -> [Partition -> Numbered]]
      BY Zenon DEF Reading
    <2>2. com[q] = IF q = p THEN o + 1 ELSE k.committed[q]
      BY Zenon, <1>3, <2>a
    <2>3. \A n \in Member : pos[n][q] = IF n = m /\ q = p THEN o + 1 ELSE k.positions[n][q]
      BY Zenon, <1>3, <2>a
    <2> QED BY Zenon, <1>8, <1>9, <2>1, <2>2, <2>3 DEF SoundReading
  <1> QED BY Zenon, <1>7, <1>10

\* What Returns makes of the reading, when what it committed has landed.
LEMMA ReturnsSound ==
    ASSUME BrokerInv, NEW m \in Member, pc[m] = "handling", NEW verdict,
           Landed, verdict = "resolved" => current[m].offset \in Done'[current[m].partition],
           Returns(m, verdict)
    PROVE  \E g \in Reading : /\ Leaves(m, g, Done') /\ g.passed = passed /\ g.pc = pc
  <1>1. /\ TypeInv /\ Now \in Reading /\ SoundReading(Now, Done)
        /\ Now.passed = passed /\ Now.pc = pc
    BY Zenon DEF BrokerInv, TypeInv, Now
  <1>2. Done' \in [Partition -> SUBSET Nat] /\ \A p \in Partition : Done[p] \subseteq Done'[p]
    BY Zenon DEF Landed, Done, Settled
  <1>3. delivered[m] \in BOOLEAN /\ failed[m] \in BOOLEAN
    BY Zenon, <1>1 DEF TypeInv
  <1>4. CASE verdict = "resolved"
    <2> DEFINE p == current[m].partition
               o == current[m].offset
    <2>1. PICK g : g = [Now EXCEPT !.committed[p] = o + 1, !.positions[m][p] = o + 1]
      BY Zenon
    <2>2. Resume(m, g, TRUE, failed[m])
      BY Zenon, <1>4, <2>1 DEF Returns
    <2>3. p \in Partition /\ o \in Nat /\ Below(o, Reached[p]) /\ o \in Done'[p]
      BY Zenon, <1>4 DEF BrokerInv, SoundCall, Calls
    <2> HIDE DEF p, o
    <2>4. g \in Reading /\ SoundReading(g, Done') /\ g.passed = passed /\ g.pc = pc
      BY Zenon, <2>1, <2>3, CommitSound
    <2>5. Leaves(m, g, Done')
      BY Zenon, <1>1, <1>2, <1>3, <2>2, <2>4, ResumeSound
    <2> QED BY Zenon, <2>4, <2>5
  <1>5. CASE verdict # "resolved"
    <2>1. PICK g \in Reading : g = Now
      BY Zenon, <1>1
    <2>2. Resume(m, g, delivered[m], TRUE)
      BY Zenon, <1>5, <2>1 DEF Returns
    <2>3. SoundReading(g, Done')
      BY Zenon, <1>1, <1>2, <2>1, ReadingGrows
    <2>4. Leaves(m, g, Done')
      BY Zenon, <1>1, <1>2, <1>3, <2>2, <2>3, ResumeSound
    <2> QED BY Zenon, <1>1, <2>1, <2>4
  <1> QED BY Zenon, <1>4, <1>5

\* Every step of the broker and its consumers preserves the invariant.
LEMMA NextHolds == BrokerInv /\ [Next]_vars => BrokerInv'
  <1> SUFFICES ASSUME BrokerInv, [Next]_vars PROVE BrokerInv'
    BY Zenon
  <1>t. /\ TypeInv /\ Now \in Reading /\ SoundReading(Now, Done)
        /\ Now.passed = passed /\ Now.pc = pc
        /\ log \in [Partition -> Nat] /\ \A p \in Partition : log[p] <= MaxLog[p]
        /\ assigned \in [Member -> SUBSET Partition]
    BY Zenon DEF BrokerInv, TypeInv, Now
  <1>n. Now \in Reading /\ SoundReading(Now, Done)
    BY Zenon, <1>t
  <1>d. Done \in [Partition -> SUBSET Nat]
    BY Zenon, <1>t DEF TypeInv, Done, Settled
  <1>1. ASSUME NEW batch \in Batches, produce(batch) PROVE BrokerInv'
    <2>1. PICK h : h = notify(Range(members), Now)
      BY Zenon
    <2>2. /\ h \in Reading /\ SoundReading(h, Done) /\ h.passed = Now.passed
          /\ \A n \in Member : h.pc[n] = "handling" <=> Now.pc[n] = "handling"
      <3>1. Kept(h, Now, Done)
        BY <1>n, <2>1, NotifySound, Zenon
      <3> QED BY Zenon, <3>1 DEF Kept
    <2>3. log' \in [Partition -> Nat] /\ \A p \in Partition : log'[p] <= MaxLog[p]
      BY <1>1, <1>t DEF produce, Batches
    <2>4. /\ Becomes(h) /\ assigned' = assigned
          /\ UNCHANGED <<todo, delivered, failed, current, orphans, handled, dead, tried>>
      BY Zenon, <1>1, <2>1 DEF produce, groupVars, passVars, effects
    <2> QED BY Zenon, <1>t, <2>2, <2>3, <2>4, ShiftPreserves
  <1>2. ASSUME NEW m \in Member, subscribe(m) PROVE BrokerInv'
    <2>1. PICK k : k = [Now EXCEPT !.pc[m] = "loop"]
      BY Zenon
    <2>2. /\ k \in Reading /\ SoundReading(k, Done) /\ k.passed = passed
          /\ \A n \in Member : k.pc[n] = "handling" => pc[n] = "handling"
      BY Zenon, <2>1, MovedSound DEF Places
    <2>r. k \in Reading /\ SoundReading(k, Done)
      BY Zenon, <2>2
    <2>3. PICK g : g = rebalance(members', k)
      BY Zenon
    <2>4. /\ g \in Reading /\ SoundReading(g, Done) /\ g.passed = k.passed
          /\ \A n \in Member : g.pc[n] = "handling" <=> k.pc[n] = "handling"
      <3>1. Kept(g, k, Done)
        BY <2>r, <2>3, RebalanceSound, Zenon
      <3> QED BY Zenon, <3>1 DEF Kept
    <2>5. /\ assigned' \in [Member -> SUBSET Partition] /\ Pass(m, assigned'[m], g)
          /\ UNCHANGED <<log, orphans, handled, dead, tried>>
      BY Zenon, <1>2, <2>1, <2>3, AssignedTyped DEF subscribe, effects
    <2>6. Landed /\ Done' = Done
      BY Zenon, <2>5, NothingLands
    <2>7. Leaves(m, g, Done')
      BY Zenon, <1>d, <1>t, <2>4, <2>5, <2>6, PassSound
    <2> QED BY Zenon, <2>2, <2>4, <2>5, <2>6, <2>7, StretchPreserves
  <1>3. ASSUME NEW m \in Member, stop(m) PROVE BrokerInv'
    <2>1. CASE UNCHANGED readVars
      <3>1. Becomes(Now)
        BY Zenon, <2>1 DEF Becomes, Now, readVars
      <3>2. UNCHANGED <<log, assigned, todo, delivered, failed, current, orphans, handled, dead, tried>>
        BY Zenon, <1>3 DEF stop, passVars, effects
      <3> QED BY Zenon, <1>t, <3>1, <3>2, ShiftPreserves
    <2>2. CASE Becomes(notify({m}, Now))
      <3>1. PICK h : h = notify({m}, Now)
        BY Zenon
      <3>2. /\ h \in Reading /\ SoundReading(h, Done) /\ h.passed = Now.passed
            /\ \A n \in Member : h.pc[n] = "handling" <=> Now.pc[n] = "handling"
        <4>1. Kept(h, Now, Done)
          BY <1>n, <3>1, NotifySound, Zenon
        <4> QED BY Zenon, <4>1 DEF Kept
      <3>3. /\ Becomes(h)
            /\ UNCHANGED <<log, assigned, todo, delivered, failed, current, orphans, handled, dead, tried>>
        BY Zenon, <1>3, <2>2, <3>1 DEF stop, passVars, effects
      <3> QED BY Zenon, <1>t, <3>2, <3>3, ShiftPreserves
    <2> QED BY Zenon, <1>3, <2>1, <2>2 DEF stop
  <1>4. ASSUME NEW m \in Member, leave(m) PROVE BrokerInv'
    <2>1. PICK k : k = [Now EXCEPT !.pc[m] = "left"]
      BY Zenon
    <2>2. /\ k \in Reading /\ SoundReading(k, Done) /\ k.passed = passed
          /\ \A n \in Member : k.pc[n] = "handling" => pc[n] = "handling"
      BY Zenon, <2>1, MovedSound DEF Places
    <2>r. k \in Reading /\ SoundReading(k, Done)
      BY Zenon, <2>2
    <2>3. PICK h : h = rebalance(members', k)
      BY Zenon
    <2>4. /\ h \in Reading /\ SoundReading(h, Done) /\ h.passed = k.passed
          /\ \A n \in Member : h.pc[n] = "handling" <=> k.pc[n] = "handling"
      <3>1. Kept(h, k, Done)
        BY <2>r, <2>3, RebalanceSound, Zenon
      <3> QED BY Zenon, <3>1 DEF Kept
    <2>5. /\ assigned' \in [Member -> SUBSET Partition] /\ Becomes(h)
          /\ UNCHANGED <<log, todo, delivered, failed, current, orphans, handled, dead, tried>>
      BY Zenon, <1>4, <2>1, <2>3, AssignedTyped DEF leave, passVars, effects
    <2> QED BY Zenon, <1>t, <2>2, <2>4, <2>5, ShiftPreserves
  <1>5. ASSUME NEW m \in Member, run(m) PROVE BrokerInv'
    <2>1. PICK g \in Reading : g = Now
      BY Zenon, <1>t
    <2>2. Pass(m, assigned[m], g) /\ UNCHANGED <<log, assigned, orphans, handled, dead, tried>>
      BY Zenon, <1>5, <2>1 DEF run, groupVars, effects
    <2>3. Landed /\ Done' = Done
      BY Zenon, <2>2, NothingLands
    <2>4. Leaves(m, g, Done')
      BY Zenon, <1>d, <1>t, <2>1, <2>2, <2>3, PassSound
    <2> QED BY Zenon, <1>t, <2>1, <2>2, <2>3, <2>4, StretchPreserves
  <1>6. ASSUME NEW m \in Member, redeliver(m) PROVE BrokerInv'
    <2>1. PICK h : h = [Now EXCEPT !.pc[m] = "loop", !.pending[m] = FALSE]
      BY Zenon
    <2>2. PICK g \in Reading : g = Now
      BY Zenon, <1>t
    <2>3. PICK at \in [Member -> Places], wk \in [Member -> BOOLEAN] :
            at = [g.pc EXCEPT ![m] = "loop"] /\ wk = [g.pending EXCEPT ![m] = FALSE]
      BY Zenon DEF Reading, Places
    <2>4. h = Placed(g, at, wk)
      BY Zenon, <2>1, <2>2, <2>3 DEF Placed, Reading
    <2>r. SoundReading(g, Done)
      BY Zenon, <1>n, <2>2
    <2>5. h \in Reading /\ SoundReading(h, Done) /\ h.passed = g.passed /\ h.pc = at
      BY Zenon, <2>r, <2>4, PlacedSound
    <2>6. \A n \in Member : h.pc[n] = "handling" => pc[n] = "handling"
      BY <1>t, <2>2, <2>3, <2>5 DEF Reading
    <2>7. /\ Becomes(h)
          /\ UNCHANGED <<log, assigned, todo, delivered, failed, current, orphans, handled, dead, tried>>
      BY Zenon, <1>6, <2>1 DEF redeliver, groupVars, passVars, effects
    <2> QED BY Zenon, <1>t, <2>2, <2>5, <2>6, <2>7, ShiftPreserves
  <1>7. ASSUME NEW m \in Member, handle(m) PROVE BrokerInv'
    <2>1. PICK verdict \in Verdicts, next \in After(current[m]) :
            /\ dispatch(m, current[m], verdict, next)
            /\ IF verdict = "running"
               THEN /\ current' = [current EXCEPT ![m] = next]
                    /\ UNCHANGED <<readVars, todo, delivered, failed>>
               ELSE Returns(m, verdict)
      BY <1>7, Zenon DEF handle
    <2>2. pc[m] = "handling" /\ UNCHANGED <<log, assigned, orphans>>
      BY Zenon, <1>7 DEF handle, groupVars
    <2>3. SoundCall(current[m], Reached, tried)
      BY Zenon, <2>2 DEF BrokerInv
    <2>4. /\ Landed
          /\ verdict = "resolved" => current[m].offset \in Done'[current[m].partition]
          /\ verdict = "running" =>
                SoundCall(next, [p \in Partition |-> Done'[p] \cup passed[p]], tried')
      BY Zenon, <2>1, <2>3, DispatchSound
    <2>5. CASE verdict = "running"
      <3>1. Becomes(Now)
        BY Zenon, <2>1, <2>5 DEF Becomes, Now, readVars
      <3>2. SoundReading(Now, Done')
        BY Zenon, <1>t, <2>4, ReadingGrows DEF Landed
      <3>3. DOMAIN current = Member
        BY Zenon, <1>t DEF TypeInv
      <3>4. /\ DOMAIN current' = Member /\ current'[m] = next
            /\ \A n \in Member : n # m => current'[n] = current[n]
        BY Zenon, <2>1, <2>5, <3>3
      <3>5. /\ todo' \in [Member -> SUBSET Partition] /\ delivered' \in [Member -> BOOLEAN]
            /\ failed' \in [Member -> BOOLEAN]
        BY Zenon, <1>t, <2>1, <2>5 DEF TypeInv
      <3>6. \A n \in Member : Now.pc[n] = "handling" =>
              \/ pc[n] = "handling" /\ current'[n] = current[n]
              \/ SoundCall(current'[n], [p \in Partition |-> Done'[p] \cup Now.passed[p]], tried')
        BY Zenon, <1>t, <2>4, <2>5, <3>4
      <3>7. \A x \in orphans' : x \in orphans
        BY Zenon, <2>2
      <3> QED BY Zenon, <1>t, <2>2, <2>4, <3>1, <3>2, <3>4, <3>5, <3>6, <3>7, Preserves
    <2>6. CASE verdict # "running"
      <3>1. PICK g \in Reading : Leaves(m, g, Done') /\ g.passed = passed /\ g.pc = pc
        BY Zenon, <2>1, <2>2, <2>4, <2>6, ReturnsSound
      <3> QED BY Zenon, <1>t, <2>2, <2>4, <3>1, StretchPreserves
    <2> QED BY Zenon, <2>5, <2>6
  <1>8. ASSUME NEW m \in Member, timeout(m) PROVE BrokerInv'
    <2>1. /\ pc[m] = "handling" /\ Returns(m, "rejected")
          /\ orphans' = orphans \cup {[member |-> m, call |-> current[m], since |-> faults]}
          /\ UNCHANGED <<log, assigned, handled, dead, tried>>
      BY Zenon, <1>8 DEF timeout, groupVars
    <2>2. Landed /\ Done' = Done
      BY Zenon, <2>1, NothingLands
    <2>3. PICK g \in Reading : Leaves(m, g, Done') /\ g.passed = passed /\ g.pc = pc
      BY Zenon, <2>1, <2>2, ReturnsSound
    <2>4. SoundCall(current[m], [p \in Partition |-> Done'[p] \cup passed[p]], tried')
      <3>1. Reached = [p \in Partition |-> Done'[p] \cup passed[p]]
        BY Zenon, <2>2 DEF Reached, Done
      <3> QED BY Zenon, <2>1, <3>1 DEF BrokerInv
    <2>5. \A x \in orphans' :
              \/ x \in orphans
              \/ /\ x.member \in Member
                 /\ x = [member |-> x.member, call |-> x.call, since |-> x.since]
                 /\ SoundCall(x.call, [p \in Partition |-> Done'[p] \cup passed[p]], tried')
      BY <2>1, <2>4
    <2> QED BY Zenon, <1>t, <2>1, <2>2, <2>3, <2>5, StretchPreserves
  <1>9. ASSUME disconnect PROVE BrokerInv'
    <2>1. PICK h : h = notify(Range(members), Now)
      BY Zenon
    <2>2. /\ h \in Reading /\ SoundReading(h, Done) /\ h.passed = Now.passed
          /\ \A n \in Member : h.pc[n] = "handling" <=> Now.pc[n] = "handling"
      <3>1. Kept(h, Now, Done)
        BY <1>n, <2>1, NotifySound, Zenon
      <3> QED BY Zenon, <3>1 DEF Kept
    <2>3. /\ Becomes(h)
          /\ UNCHANGED <<log, assigned, todo, delivered, failed, current, orphans, handled, dead, tried>>
      BY Zenon, <1>9, <2>1 DEF disconnect, passVars, effects
    <2> QED BY Zenon, <1>t, <2>2, <2>3, ShiftPreserves
  <1>10. ASSUME disconnected \/ UNCHANGED vars PROVE BrokerInv'
    <2>1. /\ Becomes(Now)
          /\ UNCHANGED <<log, assigned, todo, delivered, failed, current, orphans, handled, dead, tried>>
      BY Zenon, <1>10 DEF disconnected, Becomes, Now, vars, groupVars, readVars, passVars, effects
    <2> QED BY Zenon, <1>t, <2>1, ShiftPreserves
  <1>11. ASSUME OrphanRuns PROVE BrokerInv'
    <2>1. PICK x \in orphans, verdict \in Verdicts : \E next \in After(x.call) :
            /\ dispatch(x.member, x.call, verdict, next)
            /\ orphans' = (orphans \ {x}) \cup
                              (IF verdict = "running" THEN {[x EXCEPT !.call = next]} ELSE {})
            /\ UNCHANGED <<deadLettering, closed, log, groupVars, readVars, passVars>>
      BY <1>11, Zenon DEF OrphanRuns
    <2>2. PICK next \in After(x.call) :
            /\ dispatch(x.member, x.call, verdict, next)
            /\ orphans' = (orphans \ {x}) \cup
                              (IF verdict = "running" THEN {[x EXCEPT !.call = next]} ELSE {})
            /\ UNCHANGED <<deadLettering, closed, log, groupVars, readVars, passVars>>
      BY <2>1, Zenon
    <2>3. /\ SoundCall(x.call, Reached, tried) /\ x.member \in Member
          /\ x = [member |-> x.member, call |-> x.call, since |-> x.since]
      BY Zenon, <1>t DEF BrokerInv, TypeInv
    <2>4. /\ Landed
          /\ verdict = "running" =>
                SoundCall(next, [p \in Partition |-> Done'[p] \cup passed[p]], tried')
      BY Zenon, <2>2, <2>3, DispatchSound
    <2>5. [x EXCEPT !.call = next] = [member |-> x.member, call |-> next, since |-> x.since]
      BY <2>3
    <2>6. \A y \in orphans' :
              \/ y \in orphans
              \/ /\ y.member \in Member
                 /\ y = [member |-> y.member, call |-> y.call, since |-> y.since]
                 /\ SoundCall(y.call, [p \in Partition |-> Done'[p] \cup passed[p]], tried')
      <3>1. CASE verdict = "running"
        <4>1. PICK z : z = [member |-> x.member, call |-> next, since |-> x.since]
          BY Zenon
        <4>2. /\ z.member \in Member /\ z.call = next
              /\ z = [member |-> z.member, call |-> z.call, since |-> z.since]
          BY Zenon, <2>3, <4>1
        <4>3. orphans' = (orphans \ {x}) \cup {z}
          BY Zenon, <2>2, <2>5, <3>1, <4>1
        <4> QED BY Zenon, <2>4, <3>1, <4>2, <4>3
      <3>2. CASE verdict # "running"
        BY Zenon, <2>2, <3>2
      <3> QED BY Zenon, <3>1, <3>2
    <2>7. /\ Becomes(Now) /\ UNCHANGED <<log, assigned, todo, delivered, failed, current>>
      BY Zenon, <2>2 DEF Becomes, Now, groupVars, readVars, passVars
    <2>8. SoundReading(Now, Done')
      BY Zenon, <1>t, <2>4, ReadingGrows DEF Landed
    <2>9. /\ todo' \in [Member -> SUBSET Partition] /\ delivered' \in [Member -> BOOLEAN]
          /\ failed' \in [Member -> BOOLEAN] /\ DOMAIN current' = Member
      BY Zenon, <1>t, <2>7 DEF TypeInv
    <2> QED BY Zenon, <1>t, <2>4, <2>6, <2>7, <2>8, <2>9, Preserves
  <1> QED
    BY Zenon, <1>1, <1>2, <1>3, <1>4, <1>5, <1>6, <1>7, <1>8, <1>9, <1>10, <1>11 DEF Next

\* Nothing in the group ever points past an unsettled record, and no call is
\* under way, or was given up waiting for, above one.
THEOREM BrokerInvariant == Spec => []BrokerInv
  BY InitHolds, NextHolds, PTL DEF Spec

\* No record of a partition takes effect before every earlier one has,
\* through retries, timeouts, rebalances and shutdown: run, callHandler,
\* rebalance and the ladder together, for any number of members, partitions
\* and records.
THEOREM OrderKept == Spec => []NothingOvertaken
  <1>1. BrokerInv => NothingOvertaken
    <2> SUFFICES ASSUME BrokerInv, NEW p \in Partition, NEW o \in Settled(p)
                 PROVE  0 .. o \subseteq Settled(p) \cup passed[p]
      BY Zenon DEF NothingOvertaken
    <2>1. Settled(p) \subseteq Nat
      BY Zenon DEF BrokerInv, TypeInv, Settled
    <2>2. Below(o + 1, Reached[p])
      BY Zenon DEF BrokerInv, SoundEffects, Settled
    <2> QED BY <2>1, <2>2 DEF Below, Reached
  <1> QED BY <1>1, BrokerInvariant, PTL

\* An offset is committed only after the records below it have been handled
\* or copied to the dead-letter topic, and one is copied only once its
\* ladder is climbed: callHandler, the commit in run, giveUp.
THEOREM CommitsSound == Spec => []CommittedMeansSettled
  <1>1. BrokerInv => CommittedMeansSettled
    <2> SUFFICES ASSUME BrokerInv, NEW p \in Partition
                 PROVE  /\ 0 .. committed[p] - 1 \subseteq Settled(p) \cup passed[p]
                        /\ \A o \in dead[p] : <<p, o>> \in Undecodable \/ tried[p][o] >= MaxAttempts
      BY Zenon DEF CommittedMeansSettled
    <2>1. Below(Now.committed[p], Done[p] \cup Now.passed[p])
      BY Zenon DEF BrokerInv, SoundReading
    <2> QED BY Zenon, <2>1 DEF BrokerInv, SoundEffects, Below, Now, Done
  <1> QED BY <1>1, BrokerInvariant, PTL
=============================================================================
