------------------------ MODULE BlocAllocator_proofs ------------------------
(***************************************************************************)
(* For volumes of every size and any set of files: the safety invariants of *)
(* BlocAllocator, by one inductive invariant.  Its parts that speak of the  *)
(* time before the first free_bloc come with ~freed; what new_bloc hands    *)
(* out after it has an invariant of its own, at the end.                   *)
(***************************************************************************)
EXTENDS BlocAllocator, SequenceTheorems, TLAPS

USE NSectorAssumption DEF NULL_BLOC

-----------------------------------------------------------------------------
(* The inductive invariant.                                                *)

\* The header mknfs writes: the only one there is before the first free_bloc.
RunHeader == FreeBlc(NSector - 1, NULL_BLOC)

\* What any super bloc says, in memory, on disk or on its way there, when
\* blocs have been freed (fr) or not.
SuperOK(fr, c) ==
    c.kind = "super" =>
       \/ NSector = 2 /\ c.nb_free_blc = 1 /\ c.first_free = 1
       \/ NSector = 2 /\ c.nb_free_blc = 0 /\ c.first_free = 0
       \/ /\ NSector > 2
          /\ c.first_free > 0
          /\ ~fr => c.first_free + c.nb_free_blc = NSector

\* What any header of free blocs says.
HeaderOK(fr, c) ==
    c.kind = "free" =>
       /\ ~fr => c = RunHeader
       /\ c.nb_free_blocs = 1 /\ NSector > 2 => c.next > 0

ContentOK(fr, c) == SuperOK(fr, c) /\ HeaderOK(fr, c)

AllContentOK ==
    /\ \A b \in Bloc : ContentOK(freed, disk[b])
    /\ super # NoSuper => ContentOK(freed, super)
    /\ \A i \in 1 .. Len(todo) : ContentOK(freed, todo[i][2])

\* Bloc 0 holds a super bloc, or what the caller of a new_bloc that failed
\* has written over it.  A volume of two blocs never gives one to a file.
BlocZero ==
    /\ disk[0].kind \in {"super", "used"}
    /\ \A f \in Files : 0 \notin owned[f]
    /\ NSector = 2 => ~freed /\ \A f \in Files : owned[f] = {}

\* A write to bloc 0 saves the super bloc s, or spoils it on a full volume.
Zeroed(s, c) == c = s \/ (c = Used /\ s.nb_free_blc = 0)

\* The super bloc is on disk, or the next write saves it.
Saving ==
    /\ super = NoSuper => Len(todo) = 0
    /\ super # NoSuper =>
         /\ \A i \in 1 .. Len(todo) : todo[i][1] = 0 => Zeroed(super, todo[i][2])
         /\ Zeroed(super, disk[0]) \/ (Len(todo) > 0 /\ todo[1] = <<0, super>>)

\* The call with the writes t to come hands out a bloc.
HandingOf(t) == Len(t) > 0 /\ t[Len(t)][1] # 0 /\ t[Len(t)][2] = Used

\* The blocs below the edge were given to files.
EdgeOf(t, s) == IF HandingOf(t) THEN s.first_free - 1 ELSE s.first_free

Frontier ==
    ~freed =>
       /\ disk[0].kind = "super" =>
             \A f \in Files : owned[f] \subseteq 1 .. disk[0].first_free - 1
       /\ super # NoSuper =>
             \A f \in Files : owned[f] \subseteq 1 .. EdgeOf(todo, super) - 1
       /\ HandingOf(todo) => todo[Len(todo)][1] = super.first_free - 1

\* The head of the list is a header, or will be one before the call ends.
HeadReady ==
    ~freed /\ ~cut =>
       /\ super = NoSuper /\ disk[0].kind = "super" /\ disk[0].nb_free_blc > 0
            => disk[disk[0].first_free].kind = "free"
       /\ super # NoSuper /\ super.nb_free_blc > 0 =>
            /\ \A i \in 1 .. Len(todo) :
                  todo[i][1] = super.first_free => todo[i][2].kind = "free"
            /\ \/ disk[super.first_free].kind = "free"
               \/ \E i \in 1 .. Len(todo) : todo[i][1] = super.first_free

\* Every bloc below n belongs to a file.
AllGiven(n) == \A b \in 1 .. n - 1 : \E f \in Files : b \in owned[f]

NoGap ==
    ~freed /\ ~cut /\ NSector > 2 =>
       /\ super = NoSuper /\ disk[0].kind = "super" => AllGiven(disk[0].first_free)
       /\ super # NoSuper => AllGiven(EdgeOf(todo, super))

IInv ==
    /\ TypeOK
    /\ AllContentOK
    /\ BlocZero
    /\ Saving
    /\ Frontier
    /\ HeadReady
    /\ NoGap

-----------------------------------------------------------------------------
(* What the calls do.  A machine is known by its fields.  The changes of    *)
(* the disk and of the log have names, so that the lemmas match them.       *)

Fields == {"disk", "super", "ok", "ret", "log"}

Put(d, b, c) == [d EXCEPT ![b] = c]

NoWrite == << >>
Log1(b, c) == << <<b, c>> >>
Log2(b, c, b2, c2) == << <<b, c>>, <<b2, c2>> >>
Log3(b, c, b2, c2, b3, c3) == << <<b, c>>, <<b2, c2>>, <<b3, c3>> >>

Logged(l, b, c) == Append(l, <<b, c>>)

\* m runs, and has got as far as these values.
Is(m, d, s, l) ==
    /\ DOMAIN m = Fields
    /\ m.ok
    /\ m.disk = d
    /\ m.super = s
    /\ m.log = l

(* A process that has just started.                                        *)
LEMMA MachineIs ==
    ASSUME NEW d, NEW s
    PROVE  Is(Machine(d, s), d, s, NoWrite)
  BY DEF Machine, Is, Fields, NoWrite

(* A write changes one bloc and is added to the log.                       *)
LEMMA WriteIs ==
    ASSUME NEW m, NEW d, NEW s, NEW l, Is(m, d, s, l), NEW b, NEW c
    PROVE  /\ Is(WriteBloc(m, b, c), Put(d, b, c), s, Logged(l, b, c))
           /\ WriteBloc(m, b, c).ret = m.ret
  BY DEF WriteBloc, Is, Fields, Put, Logged

(* What a call returns changes nothing else.                               *)
LEMMA ReturnIs ==
    ASSUME NEW m, NEW d, NEW s, NEW l, Is(m, d, s, l), NEW v
    PROVE  Is(Return(m, v), d, s, l) /\ Return(m, v).ret = v
  BY DEF Return, Is, Fields

\* A change of the super bloc in memory.
Changed(m, t) == [m EXCEPT !.super = t]

(* A change of the super bloc in memory, saved at once.                    *)
LEMMA SaveIs ==
    ASSUME NEW m, NEW d, NEW s, NEW l, Is(m, d, s, l), NEW t
    PROVE  /\ Is(Changed(m, t), d, t, l)
           /\ Is(SaveSuper(Changed(m, t)), Put(d, 0, t), t, Logged(l, 0, t))
  <1>1. Is(Changed(m, t), d, t, l)
    BY DEF Is, Fields, Changed
  <1>2. Changed(m, t).super = t
    BY <1>1 DEF Is
  <1> QED
    BY <1>1, <1>2, WriteIs DEF SaveSuper

(* An entry more.                                                          *)
LEMMA AppendIs ==
    ASSUME NEW S, NEW s \in Seq(S), NEW e \in S, NEW t, t = Append(s, e)
    PROVE  /\ t \in Seq(S)
           /\ Len(t) = Len(s) + 1
           /\ t[Len(s) + 1] = e
           /\ \A i \in 1 .. Len(s) : t[i] = s[i]
  OBVIOUS

(* The logs of calls of one, two and three writes, entry by entry.         *)
LEMMA Logs ==
    ASSUME NEW b, NEW c, NEW b2, NEW c2, NEW b3, NEW c3
    PROVE  /\ Logged(NoWrite, b, c) = Log1(b, c)
           /\ Logged(Log1(b, c), b2, c2) = Log2(b, c, b2, c2)
           /\ Logged(Log2(b, c, b2, c2), b3, c3) = Log3(b, c, b2, c2, b3, c3)
  <1> DEFINE x == <<b, c>>
             y == <<b2, c2>>
             z == <<b3, c3>>
             S == {x, y, z}
             none == NoWrite
             one == Log1(b, c)
             two == Log2(b, c, b2, c2)
             three == Log3(b, c, b2, c2, b3, c3)
  <1>1. x \in S /\ y \in S /\ z \in S
    OBVIOUS
  <1> HIDE DEF S
  <1>2. none \in Seq(S) /\ Len(none) = 0
    BY DEF NoWrite
  <1>3. one \in Seq(S) /\ Len(one) = 1 /\ one[1] = x
    BY <1>1 DEF Log1
  <1>4. two \in Seq(S) /\ Len(two) = 2 /\ two[1] = x /\ two[2] = y
    BY <1>1 DEF Log2
  <1>5. three \in Seq(S) /\ Len(three) = 3
        /\ three[1] = x /\ three[2] = y /\ three[3] = z
    BY <1>1 DEF Log3
  <1> HIDE DEF x, y, z, none, one, two, three
  <1>6. ASSUME NEW t, t = Logged(none, b, c)
        PROVE  t = one
    <2>0. t = Append(none, x)
      BY <1>6 DEF Logged, x
    <2>1. t \in Seq(S) /\ Len(t) = 1 /\ t[1] = x
      BY <1>1, <1>2, <2>0, AppendIs
    <2>2. \A i \in 1 .. Len(t) : t[i] = one[i]
      BY <1>3, <2>1
    <2> QED
      BY <1>3, <2>1, <2>2, SeqEqual
  <1>7. ASSUME NEW t, t = Logged(one, b2, c2)
        PROVE  t = two
    <2>0. t = Append(one, y)
      BY <1>7 DEF Logged, y
    <2>1. t \in Seq(S) /\ Len(t) = 2 /\ t[1] = x /\ t[2] = y
      BY <1>1, <1>3, <2>0, AppendIs
    <2>2. \A i \in 1 .. Len(t) : t[i] = two[i]
      BY <1>4, <2>1
    <2> QED
      BY <1>4, <2>1, <2>2, SeqEqual
  <1>8. ASSUME NEW t, t = Logged(two, b3, c3)
        PROVE  t = three
    <2>0. t = Append(two, z)
      BY <1>8 DEF Logged, z
    <2>1. t \in Seq(S) /\ Len(t) = 3 /\ t[1] = x /\ t[2] = y /\ t[3] = z
      BY <1>1, <1>4, <2>0, AppendIs
    <2>2. \A i \in 1 .. Len(t) : t[i] = three[i]
      BY <1>5, <2>1
    <2> QED
      BY <1>5, <2>1, <2>2, SeqEqual
  <1> QED
    BY <1>6, <1>7, <1>8 DEF none, one, two, three

(* The first, the second and the third write of a call.                    *)
LEMMA FirstWrite ==
    ASSUME NEW m, NEW d, NEW s, Is(m, d, s, NoWrite), NEW b, NEW c
    PROVE  Is(WriteBloc(m, b, c), Put(d, b, c), s, Log1(b, c))
  <1>1. Logged(NoWrite, b, c) = Log1(b, c)
    BY Logs
  <1> QED
    BY <1>1, WriteIs

(* The second write of a call: what is on disk and in the log after it.     *)
LEMMA SecondWrite ==
    ASSUME NEW m, NEW d, NEW s, NEW b, NEW c, Is(m, d, s, Log1(b, c)),
           NEW b2, NEW c2
    PROVE  Is(WriteBloc(m, b2, c2), Put(d, b2, c2), s, Log2(b, c, b2, c2))
  <1>1. Logged(Log1(b, c), b2, c2) = Log2(b, c, b2, c2)
    BY Logs
  <1> QED
    BY <1>1, WriteIs

(* The third write of a call: what is on disk and in the log after it.      *)
LEMMA ThirdWrite ==
    ASSUME NEW m, NEW d, NEW s, NEW b, NEW c, NEW b2, NEW c2,
           Is(m, d, s, Log2(b, c, b2, c2)), NEW b3, NEW c3
    PROVE  Is(WriteBloc(m, b3, c3), Put(d, b3, c3), s, Log3(b, c, b2, c2, b3, c3))
  <1>1. Logged(Log2(b, c, b2, c2), b3, c3) = Log3(b, c, b2, c2, b3, c3)
    BY Logs
  <1> QED
    BY <1>1, WriteIs

-----------------------------------------------------------------------------
(* What the actions do to the memory and to the writes still to come.      *)

(* new_bloc on a full volume returns 0, and its caller writes over bloc 0.  *)
LEMMA TakeFull ==
    ASSUME Take, super.nb_free_blc = 0
    PROVE  super' = super /\ todo' = Log1(0, Used)
  <1> DEFINE start == Machine(disk, super)
             m == NewBloc(start)
             w == WriteBloc(m, 0, Used)
  <1>1. Is(start, disk, super, NoWrite)
    BY MachineIs
  <1>2. m = Return(start, 0)
    BY <1>1 DEF NewBloc, Is
  <1>3. Is(m, disk, super, NoWrite) /\ m.ret = 0
    BY <1>1, <1>2, ReturnIs
  <1>4. super' = w.super /\ todo' = w.log
    BY <1>3 DEF Take
  <1> HIDE DEF m
  <1>5. Is(w, Put(disk, 0, Used), super, Logged(NoWrite, 0, Used))
    BY <1>3, WriteIs
  <1>6. Logged(NoWrite, 0, Used) = Log1(0, Used)
    BY Logs
  <1> QED
    BY <1>4, <1>5, <1>6 DEF Is

(* new_bloc saves the super bloc, then moves the header of a run of more    *)
(* than one bloc; its caller writes to the bloc returned.                   *)
LEMMA TakeBloc ==
    ASSUME Take, super.nb_free_blc # 0,
           NEW first, first = super.first_free,
           NEW head, head = disk[first]
    PROVE  /\ head.kind = "free"
           /\ head.nb_free_blocs = 1 =>
                /\ super' = Super(super.root, super.nb_free_blc - 1, head.next)
                /\ todo' = Log2(0, super', head.next, Used)
           /\ head.nb_free_blocs # 1 =>
                /\ super' = Super(super.root, super.nb_free_blc - 1, first + 1)
                /\ todo' = Log3(0, super', first + 1, head, first, Used)
  <1> DEFINE start == Machine(disk, super)
             s(next) == Super(super.root, super.nb_free_blc - 1, next)
             taken(next) == SaveSuper(Changed(start, s(next)))
             m == NewBloc(start)
             w == WriteBloc(m, m.ret, Used)
  <1>1. Is(start, disk, super, NoWrite)
    BY MachineIs
  <1>2. super' = w.super /\ todo' = w.log /\ m.ok
    BY DEF Take
  <1>3. head.kind = "free"
    <2>1. ~Stopped(start).ok
      BY <1>1 DEF Stopped, Is, Fields
    <2>2. CASE head.kind # "free"
      <3>1. m = Stopped(start)
        BY <1>1, <2>2 DEF NewBloc, Is
      <3> QED
        BY <1>2, <2>1, <3>1
    <2> QED
      BY <2>2
  <1>4. ASSUME NEW next
        PROVE  Is(taken(next), Put(disk, 0, s(next)), s(next), Log1(0, s(next)))
    <2>1. Logged(NoWrite, 0, s(next)) = Log1(0, s(next))
      BY Logs
    <2> QED
      BY <1>1, <2>1, SaveIs
  <1>5. CASE head.nb_free_blocs = 1
    <2>1. m = Return(taken(head.next), head.next)
      BY <1>1, <1>3, <1>5 DEF NewBloc, Is, Changed
    <2> HIDE DEF m, taken
    <2>2. /\ Is(m, Put(disk, 0, s(head.next)), s(head.next), Log1(0, s(head.next)))
          /\ m.ret = head.next
      BY <1>4, <2>1, ReturnIs
    <2> HIDE DEF s
    <2>3. Is(w, Put(Put(disk, 0, s(head.next)), head.next, Used), s(head.next),
             Log2(0, s(head.next), head.next, Used))
      BY <2>2, SecondWrite
    <2>4. /\ super' = s(head.next)
          /\ todo' = Log2(0, s(head.next), head.next, Used)
      BY <1>2, <2>3 DEF Is
    <2> QED
      BY <1>3, <1>5, <2>4 DEF s
  <1>6. CASE head.nb_free_blocs # 1
    <2> DEFINE next == first + 1
               moved == WriteBloc(taken(next), next, head)
    <2>1. m = Return(moved, first)
      BY <1>1, <1>3, <1>6 DEF NewBloc, Is, Changed
    <2> HIDE DEF m, taken, s, next
    <2>2. Is(moved, Put(Put(disk, 0, s(next)), next, head), s(next),
             Log2(0, s(next), next, head))
      BY <1>4, SecondWrite
    <2> HIDE DEF moved
    <2>3. /\ Is(m, Put(Put(disk, 0, s(next)), next, head), s(next),
                Log2(0, s(next), next, head))
          /\ m.ret = first
      BY <2>1, <2>2, ReturnIs
    <2>4. Is(w, Put(Put(Put(disk, 0, s(next)), next, head), first, Used), s(next),
             Log3(0, s(next), next, head, first, Used))
      BY <2>3, ThirdWrite
    <2>5. super' = s(next) /\ todo' = Log3(0, s(next), next, head, first, Used)
      BY <1>2, <2>4 DEF Is
    <2> QED
      BY <1>3, <1>6, <2>5 DEF s, next
  <1> QED
    BY <1>5, <1>6

(* free_bloc saves the super bloc, clears the bloc, makes it a header.      *)
LEMMA GiveBackBloc ==
    ASSUME NEW f, NEW b, GiveBack(f, b)
    PROVE  /\ super' = Super(super.root, super.nb_free_blc + 1, b)
           /\ todo' = Log3(0, super', b, Zero, b, FreeBlc(1, super.first_free))
  <1> DEFINE start == Machine(disk, super)
             s == Super(super.root, super.nb_free_blc + 1, b)
             pushed == SaveSuper(Changed(start, s))
             cleaned == WriteBloc(pushed, b, Zero)
             header == FreeBlc(1, super.first_free)
             m == WriteBloc(cleaned, b, header)
  <1>1. Is(start, disk, super, NoWrite)
    BY MachineIs
  <1>2. super # NoSuper
    BY DEF GiveBack, Idle
  <1>3. FreeBloc(start, b) = m
    BY <1>1, <1>2 DEF FreeBloc, CleanBloc, Is, Changed
  <1>4. super' = m.super /\ todo' = m.log
    BY <1>3 DEF GiveBack
  <1>5. Is(pushed, Put(disk, 0, s), s, Log1(0, s))
    <2>1. Logged(NoWrite, 0, s) = Log1(0, s)
      BY Logs
    <2> QED
      BY <1>1, <2>1, SaveIs
  <1> HIDE DEF pushed, header
  <1>6. Is(cleaned, Put(Put(disk, 0, s), b, Zero), s, Log2(0, s, b, Zero))
    BY <1>5, SecondWrite
  <1> HIDE DEF cleaned
  <1>7. Is(m, Put(Put(Put(disk, 0, s), b, Zero), b, header), s,
           Log3(0, s, b, Zero, b, header))
    BY <1>6, ThirdWrite
  <1> HIDE DEF m, s
  <1>8. super' = s /\ todo' = Log3(0, s, b, Zero, b, header)
    BY <1>4, <1>7 DEF Is
  <1> QED
    BY <1>8 DEF s, header

(* mknfs: a super bloc, and one run of all the other blocs.                *)
LEMMA InitSuperIs ==
    ASSUME NEW d, NEW t, NEW s, s = Super(NULL_BLOC, NSector - 1, 1)
    PROVE  Is(InitSuper(Machine(d, t)),
              Put(Put(d, 0, s), 1, RunHeader), s, Log2(0, s, 1, RunHeader))
  <1> DEFINE start == Changed(Machine(d, t), s)
             m == WriteBloc(start, 0, s)
  <1>1. Is(start, d, s, NoWrite)
    BY MachineIs, SaveIs
  <1>2. InitSuper(Machine(d, t)) = WriteBloc(m, 1, RunHeader)
    BY DEF InitSuper, RunHeader, Changed
  <1> HIDE DEF start
  <1>3. Is(m, Put(d, 0, s), s, Log1(0, s))
    BY <1>1, FirstWrite
  <1> HIDE DEF m
  <1> QED
    BY <1>2, <1>3, SecondWrite

(* The machine of a process that has loaded the super bloc.                *)
LEMMA MountLoads ==
    ASSUME Mount
    PROVE  super' = disk[0] /\ disk[0].kind = "super"
  <1> DEFINE start == Machine(disk, NoSuper)
  <1>1. Is(start, disk, NoSuper, NoWrite)
    BY MachineIs
  <1>2. ~Stopped(start).ok
    BY <1>1 DEF Stopped, Is, Fields
  <1>3. disk[0].kind = "super"
    BY <1>1, <1>2 DEF Mount, LoadSuper, Is
  <1>4. LoadSuper(start) = Changed(start, disk[0])
    BY <1>1, <1>3 DEF LoadSuper, Is, Changed
  <1>5. Changed(start, disk[0]).super = disk[0]
    BY <1>1, SaveIs DEF Is
  <1> QED
    BY <1>3, <1>4, <1>5 DEF Mount

-----------------------------------------------------------------------------
(* The entries of the writes still to come.                                *)

Writes == Bloc \X Contents

(* The entries of the log of a call of one write.                          *)
LEMMA Entries1 ==
    ASSUME NEW b, NEW c
    PROVE  /\ Len(Log1(b, c)) = 1
           /\ Log1(b, c)[1] = <<b, c>> /\ Log1(b, c)[1][1] = b /\ Log1(b, c)[1][2] = c
           /\ b \in Bloc /\ c \in Contents => Log1(b, c) \in Seq(Writes)
  BY DEF Log1, Writes

(* The entries of the log of a call of two writes.                         *)
LEMMA Entries2 ==
    ASSUME NEW b, NEW c, NEW b2, NEW c2, NEW t, t = Log2(b, c, b2, c2)
    PROVE  /\ Len(t) = 2
           /\ t[1] = <<b, c>> /\ t[1][1] = b /\ t[1][2] = c
           /\ t[2] = <<b2, c2>> /\ t[2][1] = b2 /\ t[2][2] = c2
           /\ b \in Bloc /\ b2 \in Bloc /\ c \in Contents /\ c2 \in Contents
                => t \in Seq(Writes)
  BY DEF Log2, Writes

(* The entries of the log of a call of three writes.                       *)
LEMMA Entries3 ==
    ASSUME NEW b, NEW c, NEW b2, NEW c2, NEW b3, NEW c3,
           NEW t, t = Log3(b, c, b2, c2, b3, c3)
    PROVE  /\ Len(t) = 3
           /\ t[1] = <<b, c>> /\ t[1][1] = b /\ t[1][2] = c
           /\ t[2] = <<b2, c2>> /\ t[2][1] = b2 /\ t[2][2] = c2
           /\ t[3] = <<b3, c3>> /\ t[3][1] = b3 /\ t[3][2] = c3
           /\ /\ b \in Bloc /\ b2 \in Bloc /\ b3 \in Bloc
              /\ c \in Contents /\ c2 \in Contents /\ c3 \in Contents
              => t \in Seq(Writes)
  BY DEF Log3, Writes

(* What remains when the first write has reached the disk.                 *)
LEMMA TailEntries ==
    ASSUME todo \in Seq(Writes), todo # << >>
    PROVE  /\ Len(todo) \in Nat \ {0}
           /\ todo[1][1] \in Bloc /\ todo[1][2] \in Contents
           /\ Tail(todo) \in Seq(Writes)
           /\ Len(Tail(todo)) = Len(todo) - 1
           /\ \A i \in 1 .. Len(todo) - 1 : Tail(todo)[i] = todo[i + 1]
           /\ Tail(todo) = << >> <=> Len(todo) = 1
  <1>1. Len(todo) \in Nat \ {0}
    BY EmptySeq
  <1>2. todo[1] \in Writes
    BY <1>1, ElementOfSeq
  <1>3. todo[1][1] \in Bloc /\ todo[1][2] \in Contents
    BY <1>2 DEF Writes
  <1>4. /\ Tail(todo) \in Seq(Writes)
        /\ Len(Tail(todo)) = Len(todo) - 1
        /\ \A i \in 1 .. Len(todo) - 1 : Tail(todo)[i] = todo[i + 1]
    BY HeadTailProperties
  <1>5. Tail(todo) = << >> <=> Len(todo) = 1
    <2> DEFINE t == Tail(todo)
    <2>1. t \in Seq(Writes) /\ Len(t) = Len(todo) - 1
      BY <1>4
    <2> HIDE DEF t
    <2>2. t = << >> <=> Len(t) = 0
      <3>1. t = << >> => Len(t) = 0
        OBVIOUS
      <3>2. t # << >> => Len(t) # 0
        <4>1. << >> \in Seq(Writes) /\ Len(<< >>) = 0
          OBVIOUS
        <4> QED
          BY <2>1, <4>1, SeqEqual
      <3> QED
        BY <3>1, <3>2
    <2>3. t = << >> <=> Len(todo) = 1
      BY <1>1, <2>1, <2>2
    <2> QED
      BY <2>3 DEF t
  <1> QED
    BY <1>1, <1>3, <1>4, <1>5

(* Contents are told apart by their kind.                                  *)
LEMMA Kinds ==
    /\ \A c \in Contents : c.kind = "free" => c \in FreeBlcs
    /\ \A c \in Contents : c.kind = "super" => c \in Supers
    /\ Zero \in Contents /\ Used \in Contents
    /\ Zero.kind = "zero" /\ Used.kind = "used" /\ NoSuper.kind = "none"
    /\ \A c \in Supers : c \in Contents /\ c.kind = "super" /\ c # Used /\ c # NoSuper
    /\ \A c \in FreeBlcs : c \in Contents /\ c.kind = "free"
    /\ \A n \in Nat, b \in Bloc : Super(0, n, b) \in Supers /\ FreeBlc(n, b) \in FreeBlcs
  BY DEF Contents, Supers, FreeBlcs, Zero, Used, NoSuper, Super, FreeBlc

-----------------------------------------------------------------------------
(* What an action finds and leaves, from the parts of the invariant that    *)
(* speak of contents.                                                      *)

(* No write is to come exactly when the log of the call is of length 0.     *)
LEMMA Empty == ASSUME TypeOK PROVE todo = << >> <=> Len(todo) = 0
  <1>1. << >> \in Seq(Writes) /\ Len(<< >>) = 0
    OBVIOUS
  <1>2. todo \in Seq(Writes)
    BY DEF TypeOK, Writes
  <1>3. todo = << >> => Len(todo) = 0
    BY <1>1
  <1>4. Len(todo) = 0 => todo = << >>
    BY <1>1, <1>2, SeqEqual
  <1> QED
    BY <1>3, <1>4

(* mknfs has a new super bloc and one header to write.                     *)
LEMMA FormatEffect ==
    ASSUME Format
    PROVE  /\ super = NoSuper
           /\ super' = Super(0, NSector - 1, 1)
           /\ todo' = Log2(0, super', 1, RunHeader)
           /\ owned' = [f \in Files |-> {}]
           /\ disk' = disk
           /\ freed' = freed
           /\ ~cut'
  <1> DEFINE s == Super(NULL_BLOC, NSector - 1, 1)
             m == InitSuper(Machine(disk, NoSuper))
  <1>1. Is(m, Put(Put(disk, 0, s), 1, RunHeader), s, Log2(0, s, 1, RunHeader))
    BY InitSuperIs
  <1>2. super' = m.super /\ todo' = m.log
    BY DEF Format
  <1> HIDE DEF m, s
  <1>3. super' = s /\ todo' = Log2(0, s, 1, RunHeader)
    BY <1>1, <1>2 DEF Is
  <1> QED
    BY <1>3 DEF Format, s

(***************************************************************************)
(* new_bloc finds a full volume, takes the only bloc of a volume of two,    *)
(* takes the head of a run of one bloc (freed before), or cuts a longer run.*)
(***************************************************************************)
LEMMA TakeEffect ==
    ASSUME TypeOK, AllContentOK, BlocZero, Take
    PROVE  /\ super \in Supers /\ Len(todo) = 0
           /\ super # NoSuper /\ super.kind = "super"
           /\ disk' = disk /\ owned' = owned /\ freed' = freed /\ cut' = cut
           /\ \/ /\ super.nb_free_blc = 0
                 /\ super' = super
                 /\ todo' = Log1(0, Used)
              \/ /\ NSector = 2 /\ super.nb_free_blc = 1 /\ super.first_free = 1
                 /\ super' = Super(0, 0, 0)
                 /\ todo' = Log2(0, super', 0, Used)
              \/ /\ NSector > 2 /\ freed /\ super.nb_free_blc # 0
                 /\ \E next \in Bloc \ {0} :
                       /\ super' = Super(0, super.nb_free_blc - 1, next)
                       /\ todo' = Log2(0, super', next, Used)
              \/ /\ NSector > 2 /\ super.nb_free_blc # 0
                 /\ super.first_free \in 1 .. NSector - 1
                 /\ disk[super.first_free].kind = "free"
                 /\ super' = Super(0, super.nb_free_blc - 1, super.first_free + 1)
                 /\ todo' = Log3(0, super', super.first_free + 1,
                                 disk[super.first_free], super.first_free, Used)
  <1> USE Kinds
  <1> DEFINE first == super.first_free
             head == disk[first]
             nb == super.nb_free_blc
  <1>1. super \in Supers /\ todo = << >>
    BY DEF Take, Idle, TypeOK
  <1>2. disk' = disk /\ owned' = owned /\ freed' = freed /\ cut' = cut
    BY DEF Take
  <1>3. Len(todo) = 0
    BY <1>1, Empty
  <1>4. /\ super # NoSuper /\ super.kind = "super"
        /\ super.root = 0 /\ nb \in Nat /\ first \in Bloc
    BY <1>1 DEF Supers
  <1>5. SuperOK(freed, super)
    BY <1>4 DEF AllContentOK, ContentOK
  <1>6. CASE nb = 0
    <2>1. super' = super /\ todo' = Log1(0, Used)
      BY <1>6, TakeFull
    <2> QED
      BY <1>1, <1>2, <1>3, <1>4, <1>6, <2>1
  <1>7. CASE nb # 0
    <2>1. head.kind = "free"
      BY <1>7, TakeBloc
    <2>2. head \in FreeBlcs /\ HeaderOK(freed, head)
      BY <1>4, <2>1 DEF TypeOK, AllContentOK, ContentOK
    <2>3. head.next \in Bloc /\ head.nb_free_blocs \in Nat
      BY <2>2 DEF FreeBlcs
    <2>4. RunHeader.nb_free_blocs = NSector - 1 /\ RunHeader.next = 0
      BY DEF RunHeader, FreeBlc
    <2>5. CASE head.nb_free_blocs = 1
      <3>1. super' = Super(0, nb - 1, head.next) /\ todo' = Log2(0, super', head.next, Used)
        BY <1>4, <1>7, <2>5, TakeBloc
      <3>2. CASE NSector = 2
        <4>1. ~freed /\ nb = 1 /\ first = 1
          BY <1>4, <1>5, <1>7, <3>2 DEF SuperOK, BlocZero
        <4>2. head.next = 0
          BY <2>1, <2>2, <2>4, <4>1 DEF HeaderOK
        <4> HIDE DEF head
        <4> QED
          BY <1>1, <1>2, <1>3, <1>4, <3>1, <3>2, <4>1, <4>2
      <3>3. CASE NSector > 2
        <4>1. head.next > 0 /\ freed
          BY <2>1, <2>2, <2>4, <2>5, <3>3 DEF HeaderOK
        <4>2. head.next \in Bloc \ {0}
          BY <2>3, <4>1
        <4> HIDE DEF head
        <4> QED
          BY <1>1, <1>2, <1>3, <1>4, <1>7, <3>1, <3>3, <4>1, <4>2
      <3> QED
        BY <3>2, <3>3
    <2>6. CASE head.nb_free_blocs # 1
      <3>1. /\ super' = Super(0, nb - 1, first + 1)
            /\ todo' = Log3(0, super', first + 1, head, first, Used)
        BY <1>4, <1>7, <2>6, TakeBloc
      <3>2. NSector > 2
        BY <2>1, <2>2, <2>4, <2>6 DEF HeaderOK, BlocZero
      <3>3. first > 0
        BY <1>4, <1>5, <3>2 DEF SuperOK
      <3>4. first < NSector
        <4>1. CASE freed
          BY <1>4, <1>7, <4>1 DEF Take, HeadInVolume
        <4>2. CASE ~freed
          BY <1>4, <1>5, <1>7, <3>2, <4>2 DEF SuperOK, Bloc
        <4> QED
          BY <4>1, <4>2
      <3>5. first \in 1 .. NSector - 1
        BY <1>4, <3>3, <3>4 DEF Bloc
      <3> QED
        BY <1>1, <1>2, <1>3, <1>4, <1>7, <2>1, <3>1, <3>2, <3>5
    <2> QED
      BY <2>5, <2>6
  <1> QED
    BY <1>6, <1>7

(* free_bloc has the super bloc, null octets and a header to write.        *)
LEMMA GiveBackEffect ==
    ASSUME TypeOK, AllContentOK, BlocZero,
           NEW f \in Files, NEW b \in Bloc, GiveBack(f, b)
    PROVE  /\ NSector > 2 /\ b # 0
           /\ super \in Supers /\ super.kind = "super" /\ super # NoSuper
           /\ super.first_free > 0
           /\ Len(todo) = 0
           /\ super' = Super(0, super.nb_free_blc + 1, b)
           /\ todo' = Log3(0, super', b, Zero, b, FreeBlc(1, super.first_free))
           /\ \A g \in Files : owned'[g] \subseteq owned[g]
           /\ disk' = disk /\ freed' /\ cut' = cut
  <1> USE Kinds
  <1>1. super \in Supers /\ todo = << >> /\ b \in owned[f]
    BY DEF GiveBack, Idle, TypeOK
  <1>2. NSector > 2 /\ b # 0
    BY <1>1 DEF BlocZero
  <1>3. super.root = 0 /\ super.kind = "super" /\ super # NoSuper
    BY <1>1 DEF Supers
  <1>4. super.first_free > 0
    BY <1>2, <1>3 DEF AllContentOK, ContentOK, SuperOK
  <1>5. Len(todo) = 0
    BY <1>1, Empty
  <1>6. /\ super' = Super(0, super.nb_free_blc + 1, b)
        /\ todo' = Log3(0, super', b, Zero, b, FreeBlc(1, super.first_free))
    BY <1>3, GiveBackBloc
  <1>7. \A g \in Files : owned'[g] \subseteq owned[g]
    BY DEF GiveBack, TypeOK
  <1>8. disk' = disk /\ freed' /\ cut' = cut
    BY DEF GiveBack
  <1> QED
    BY <1>1, <1>2, <1>3, <1>4, <1>5, <1>6, <1>7, <1>8

(* A sector write changes one bloc and leaves the other writes to come.    *)
LEMMA WriteEffect ==
    ASSUME TypeOK, WriteSector
    PROVE  /\ Len(todo) \in Nat \ {0} /\ Len(todo') = Len(todo) - 1
           /\ todo[1][1] \in Bloc
           /\ \A b \in Bloc :
                 disk'[b] = IF b = todo[1][1] THEN todo[1][2] ELSE disk[b]
           /\ \A i \in 1 .. Len(todo) - 1 : todo'[i] = todo[i + 1]
           /\ super' = super /\ freed' = freed /\ cut' = cut
  <1>1. todo \in Seq(Writes) /\ todo # << >>
    BY DEF TypeOK, Writes, WriteSector
  <1>2. disk' = [disk EXCEPT ![todo[1][1]] = todo[1][2]] /\ todo' = Tail(todo)
    BY DEF WriteSector
  <1>3. \A b \in Bloc : disk'[b] = IF b = todo[1][1] THEN todo[1][2] ELSE disk[b]
    BY <1>2 DEF TypeOK
  <1>4. super' = super /\ freed' = freed /\ cut' = cut
    BY DEF WriteSector
  <1> QED
    BY <1>1, <1>2, <1>3, <1>4, TailEntries

-----------------------------------------------------------------------------
(* Each part of the invariant is preserved by every action.                *)

(* Every action preserves TypeOK.                                          *)
LEMMA TypeStep ==
    ASSUME TypeOK, AllContentOK, BlocZero, [Next]_vars
    PROVE  TypeOK'
  <1> USE Kinds
  <1>0. /\ disk \in [Bloc -> Contents] /\ todo \in Seq(Writes)
        /\ 0 \in Bloc /\ 1 \in Bloc
    BY DEF TypeOK, Bloc, Writes
  <1>1. CASE Mount
    <2>1. super' = disk[0] /\ disk[0].kind = "super"
      BY <1>1, MountLoads
    <2>2. super' \in Supers
      BY <1>0, <2>1
    <2> QED
      BY <1>1, <2>2 DEF Mount, TypeOK
  <1>2. CASE Format
    <2>1. /\ super' = Super(0, NSector - 1, 1) /\ todo' = Log2(0, super', 1, RunHeader)
          /\ owned' \in [Files -> SUBSET Bloc] /\ disk' = disk /\ freed' = freed
      BY <1>2, FormatEffect
    <2>2. super' \in Supers /\ RunHeader \in FreeBlcs
      BY <1>0, <2>1 DEF RunHeader
    <2>3. todo' \in Seq(Writes)
      BY <1>0, <2>1, <2>2, Entries2
    <2>4. given' = {}
      BY <1>2 DEF Format
    <2>5. cut' \in BOOLEAN
      <3>1. cut' = FALSE
        BY <1>2 DEF Format
      <3> QED
        BY ONLY <3>1, Zenon
    <2> QED
      BY <2>1, <2>2, <2>3, <2>4, <2>5 DEF TypeOK, Writes
  <1>3. CASE Take
    <2>1. super' \in Supers /\ todo' \in Seq(Writes)
      <3> USE <1>0
      <3>1. CASE super' = super /\ todo' = Log1(0, Used)
        BY <1>3, <3>1, TakeEffect, Entries1
      <3>2. CASE super' = Super(0, 0, 0) /\ todo' = Log2(0, super', 0, Used)
        <4>1. super' \in Supers
          BY <3>2
        <4> QED
          BY <3>2, <4>1, Entries2
      <3>3. ASSUME NEW next \in Bloc, super.nb_free_blc # 0,
                   super' = Super(0, super.nb_free_blc - 1, next),
                   todo' = Log2(0, super', next, Used)
            PROVE  super' \in Supers /\ todo' \in Seq(Writes)
        <4>1. super.nb_free_blc - 1 \in Nat
          BY <1>3, <3>3, TakeEffect DEF Supers
        <4>2. super' \in Supers
          BY <3>3, <4>1
        <4> QED
          BY <3>3, <4>2, Entries2
      <3>4. ASSUME NEW first \in 1 .. NSector - 1, super.nb_free_blc # 0,
                   NEW head, head = disk[first], head.kind = "free",
                   super' = Super(0, super.nb_free_blc - 1, first + 1),
                   todo' = Log3(0, super', first + 1, head, first, Used)
            PROVE  super' \in Supers /\ todo' \in Seq(Writes)
        <4>1. super.nb_free_blc - 1 \in Nat
          BY <1>3, <3>4, TakeEffect DEF Supers
        <4>2. first \in Bloc /\ first + 1 \in Bloc
          BY DEF Bloc
        <4>3. super' \in Supers /\ head \in Contents
          BY <3>4, <4>1, <4>2
        <4> QED
          BY <3>4, <4>2, <4>3, Entries3
      <3>5. CASE super.nb_free_blc = 0
        BY <1>3, <3>1, <3>5, TakeEffect
      <3>6. CASE super.nb_free_blc # 0
        <4>1. \/ super' = Super(0, 0, 0) /\ todo' = Log2(0, super', 0, Used)
              \/ \E next \in Bloc : /\ super' = Super(0, super.nb_free_blc - 1, next)
                                    /\ todo' = Log2(0, super', next, Used)
              \/ /\ super.first_free \in 1 .. NSector - 1
                 /\ disk[super.first_free].kind = "free"
                 /\ super' = Super(0, super.nb_free_blc - 1, super.first_free + 1)
                 /\ todo' = Log3(0, super', super.first_free + 1,
                                 disk[super.first_free], super.first_free, Used)
          <5>1. TypeOK /\ AllContentOK /\ BlocZero /\ Take
            BY <1>3
          <5> QED
            BY ONLY <3>6, <5>1, TakeEffect
        <4> QED
          BY ONLY <3>2, <3>3, <3>4, <3>6, <4>1
      <3> QED
        BY ONLY <3>5, <3>6
    <2>2. UNCHANGED <<disk, owned, given, freed, cut>>
      BY <1>3 DEF Take
    <2> QED
      BY <2>1, <2>2 DEF TypeOK, Writes
  <1>4. CASE TakeStopped
    BY <1>4 DEF TakeStopped, TypeOK
  <1>5. ASSUME NEW f \in Files, NEW b \in Bloc, GiveBack(f, b)
        PROVE  TypeOK'
    <2>1. /\ super \in Supers /\ disk' = disk /\ cut' = cut
          /\ super' = Super(0, super.nb_free_blc + 1, b)
          /\ todo' = Log3(0, super', b, Zero, b, FreeBlc(1, super.first_free))
      BY <1>5, GiveBackEffect
    <2>2. super.nb_free_blc + 1 \in Nat /\ super.first_free \in Bloc
      BY <2>1 DEF Supers
    <2>3. super' \in Supers /\ FreeBlc(1, super.first_free) \in FreeBlcs
      BY <2>1, <2>2
    <2>4. todo' \in Seq(Writes)
      BY <1>0, <2>1, <2>3, Entries3
    <2>5. owned' \in [Files -> SUBSET Bloc] /\ given' \in SUBSET Bloc /\ freed' \in BOOLEAN
      BY <1>5 DEF GiveBack, TypeOK
    <2> QED
      BY <2>1, <2>3, <2>4, <2>5 DEF TypeOK, Writes
  <1>6. CASE WriteSector
    <2>1. /\ todo[1][1] \in Bloc /\ todo[1][2] \in Contents
          /\ Tail(todo) \in Seq(Writes)
      BY <1>0, <1>6, TailEntries DEF WriteSector
    <2>2. disk' \in [Bloc -> Contents] /\ todo' \in Seq(Writes)
      BY <1>0, <1>6, <2>1 DEF WriteSector
    <2>3. owned' \in [Files -> SUBSET Bloc] /\ given' \in SUBSET Bloc
      <3>1. CASE UNCHANGED <<owned, given>>
        BY <3>1 DEF TypeOK
      <3>2. ASSUME NEW f \in Files, Give(f, todo[1][1])
            PROVE  owned' \in [Files -> SUBSET Bloc] /\ given' \in SUBSET Bloc
        BY <2>1, <3>2 DEF Give, TypeOK
      <3>3. \/ UNCHANGED <<owned, given>>
            \/ \E f \in Files : Give(f, todo[1][1])
        BY <1>6 DEF WriteSector
      <3> QED
        BY <3>1, <3>2, <3>3
    <2> QED
      BY <1>6, <2>2, <2>3 DEF WriteSector, TypeOK, Writes
  <1>7. CASE Exit
    <2>1. /\ disk' = disk /\ super' = NoSuper /\ todo' = << >>
          /\ owned' = owned /\ given' = given /\ freed' = freed
          /\ cut' = IF todo = << >> THEN cut ELSE TRUE
      BY <1>7 DEF Exit
    <2>2. cut' \in BOOLEAN
      <3>1. CASE todo = << >>
        <4>1. cut' = cut
          BY <2>1, <3>1
        <4> QED
          BY <4>1 DEF TypeOK
      <3>2. CASE todo # << >>
        <4>1. cut' = TRUE
          BY <2>1, <3>2
        <4> QED
          BY ONLY <4>1, Zenon
      <3> QED
        BY <3>1, <3>2
    <2>3. /\ disk' \in [Bloc -> Contents] /\ super' \in { NoSuper } \cup Supers
          /\ todo' \in Seq(Bloc \X Contents) /\ owned' \in [Files -> SUBSET Bloc]
          /\ given' \in SUBSET Bloc
      BY <2>1 DEF TypeOK
    <2>4. freed' \in BOOLEAN
      <3>1. freed' = freed
        BY <2>1
      <3> QED
        BY <3>1 DEF TypeOK
    <2> QED
      BY ONLY <2>2, <2>3, <2>4 DEF TypeOK
  <1>8. CASE UNCHANGED vars
    BY <1>8 DEF vars, TypeOK
  <1> QED
    BY <1>1, <1>2, <1>3, <1>4, <1>5, <1>6, <1>7, <1>8 DEF Next

(* Every action preserves what is known of the contents of blocs.          *)
LEMMA ContentStep ==
    ASSUME TypeOK, AllContentOK, BlocZero, [Next]_vars
    PROVE  AllContentOK'
  <1> USE Kinds
  <1>0. \A fr : ContentOK(fr, Used) /\ ContentOK(fr, Zero) /\ ContentOK(fr, RunHeader)
    BY DEF ContentOK, SuperOK, HeaderOK, RunHeader, FreeBlc, Used, Zero
  <1>1. CASE Mount
    <2>1. super' = disk[0] /\ 0 \in Bloc
      BY <1>1, MountLoads DEF Bloc
    <2> QED
      BY <1>1, <2>1 DEF Mount, AllContentOK
  <1>2. CASE Format
    <2>1. /\ super' = Super(0, NSector - 1, 1) /\ todo' = Log2(0, super', 1, RunHeader)
          /\ disk' = disk /\ freed' = freed
      BY <1>2, FormatEffect
    <2>2. ContentOK(freed', super')
      BY <2>1 DEF ContentOK, SuperOK, HeaderOK, Super
    <2>3. \A i \in 1 .. Len(todo') : ContentOK(freed', todo'[i][2])
      BY <1>0, <2>1, <2>2, Entries2
    <2> QED
      BY <2>1, <2>2, <2>3 DEF AllContentOK
  <1>3. CASE Take
    <2>1. disk' = disk /\ freed' = freed /\ super # NoSuper /\ super \in Supers
      BY <1>3, TakeEffect
    <2>2. ContentOK(freed, super) /\ super.kind = "super" /\ super.nb_free_blc \in Nat
      BY <2>1 DEF AllContentOK, Supers
    <2>3. /\ ContentOK(freed, super')
          /\ \A i \in 1 .. Len(todo') : ContentOK(freed, todo'[i][2])
      <3>1. CASE super' = super /\ todo' = Log1(0, Used)
        BY <1>0, <2>2, <3>1, Entries1
      <3>2. CASE NSector = 2 /\ super' = Super(0, 0, 0) /\ todo' = Log2(0, super', 0, Used)
        <4>1. ContentOK(freed, super')
          BY <3>2 DEF ContentOK, SuperOK, HeaderOK, Super
        <4> QED
          BY <1>0, <3>2, <4>1, Entries2
      <3>3. ASSUME NSector > 2, freed, NEW next \in Bloc \ {0},
                   super' = Super(0, super.nb_free_blc - 1, next),
                   todo' = Log2(0, super', next, Used)
            PROVE  /\ ContentOK(freed, super')
                   /\ \A i \in 1 .. Len(todo') : ContentOK(freed, todo'[i][2])
        <4>1. ContentOK(freed, super')
          BY <3>3 DEF ContentOK, SuperOK, HeaderOK, Super, Bloc
        <4>2. Len(todo') = 2 /\ todo'[1][2] = super' /\ todo'[2][2] = Used
          BY <3>3, Entries2
        <4>3. ContentOK(freed, Used)
          BY <1>0
        <4>4. \A i \in 1 .. Len(todo') : ContentOK(freed, todo'[i][2])
          BY ONLY <4>1, <4>2, <4>3
        <4> QED
          BY <4>1, <4>4
      <3>4. ASSUME NSector > 2, super.nb_free_blc # 0,
                   NEW first \in 1 .. NSector - 1, first = super.first_free,
                   NEW head, head = disk[first],
                   super' = Super(0, super.nb_free_blc - 1, first + 1),
                   todo' = Log3(0, super', first + 1, head, first, Used)
            PROVE  /\ ContentOK(freed, super')
                   /\ \A i \in 1 .. Len(todo') : ContentOK(freed, todo'[i][2])
        <4>1. ContentOK(freed, super')
          BY <2>2, <3>4 DEF ContentOK, SuperOK, HeaderOK, Super
        <4>2. first \in Bloc
          BY DEF Bloc
        <4>3. ContentOK(freed, head)
          BY <3>4, <4>2 DEF AllContentOK
        <4>4. Len(todo') = 3 /\ todo'[1][2] = super' /\ todo'[2][2] = head /\ todo'[3][2] = Used
          BY <3>4, Entries3
        <4>5. ContentOK(freed, Used)
          BY <1>0
        <4>6. \A i \in 1 .. Len(todo') : ContentOK(freed, todo'[i][2])
          <5> SUFFICES ASSUME NEW i \in 1 .. Len(todo')
                       PROVE  ContentOK(freed, todo'[i][2])
            OBVIOUS
          <5>1. i = 1 \/ i = 2 \/ i = 3
            BY <4>4
          <5> QED
            BY ONLY <4>1, <4>3, <4>4, <4>5, <5>1
        <4> QED
          BY <4>1, <4>6
      <3> QED
        BY <1>3, <3>1, <3>2, <3>3, <3>4, TakeEffect
    <2> QED
      BY <2>1, <2>3 DEF AllContentOK
  <1>4. CASE TakeStopped
    BY <1>4 DEF TakeStopped, AllContentOK
  <1>5. ASSUME NEW f \in Files, NEW b \in Bloc, GiveBack(f, b)
        PROVE  AllContentOK'
    <2>1. /\ NSector > 2 /\ b # 0 /\ super.first_free > 0
          /\ super' = Super(0, super.nb_free_blc + 1, b)
          /\ todo' = Log3(0, super', b, Zero, b, FreeBlc(1, super.first_free))
          /\ disk' = disk /\ freed'
      BY <1>5, GiveBackEffect
    <2>2. ContentOK(freed', super')
      BY <2>1 DEF ContentOK, SuperOK, HeaderOK, Super, Bloc
    <2>3. ContentOK(freed', FreeBlc(1, super.first_free))
      BY <2>1 DEF ContentOK, SuperOK, HeaderOK, FreeBlc
    <2>4. \A i \in 1 .. Len(todo') : ContentOK(freed', todo'[i][2])
      <3> DEFINE header == FreeBlc(1, super.first_free)
      <3> HIDE DEF header
      <3>1. todo' = Log3(0, super', b, Zero, b, header)
        BY <2>1 DEF header
      <3>2. Len(todo') = 3 /\ todo'[1][2] = super' /\ todo'[2][2] = Zero /\ todo'[3][2] = header
        BY <3>1, Entries3
      <3>3. ContentOK(freed', header)
        BY <2>3 DEF header
      <3> QED
        BY <1>0, <2>2, <3>2, <3>3
    <2>5. \A d \in Bloc : ContentOK(freed', disk'[d])
      <3> SUFFICES ASSUME NEW d \in Bloc
                   PROVE  ContentOK(freed', disk'[d])
        OBVIOUS
      <3>1. ContentOK(freed, disk[d]) /\ disk'[d] = disk[d]
        BY <2>1 DEF AllContentOK
      <3>2. freed => freed'
        BY <2>1
      <3> QED
        BY <2>1, <3>1 DEF ContentOK, SuperOK, HeaderOK
    <2> QED
      BY <2>2, <2>4, <2>5 DEF AllContentOK
  <1>6. CASE WriteSector
    BY <1>6, WriteEffect DEF AllContentOK
  <1>7. CASE Exit
    <2>1. super' = NoSuper /\ Len(todo') = 0 /\ disk' = disk /\ freed' = freed
      BY <1>7 DEF Exit
    <2> QED
      BY <2>1 DEF AllContentOK
  <1>8. CASE UNCHANGED vars
    BY <1>8 DEF vars, AllContentOK
  <1> QED
    BY <1>1, <1>2, <1>3, <1>4, <1>5, <1>6, <1>7, <1>8 DEF Next

\* The write to come is the last one of a call that hands out a bloc.
LastHands == Len(todo) = 1 /\ HandingOf(todo)

(* The last write of a call that hands out a bloc gives it to a file; no    *)
(* other write gives a bloc.                                               *)
LEMMA WriteOwned ==
    ASSUME TypeOK, WriteSector
    PROVE  /\ ~LastHands => owned' = owned
           /\ LastHands =>
                /\ todo[1][1] # 0
                /\ \A g \in Files : /\ owned[g] \subseteq owned'[g]
                                    /\ owned'[g] \subseteq owned[g] \cup {todo[1][1]}
                /\ \E f \in Files : todo[1][1] \in owned'[f]
  <1>1. LastHands <=> Len(todo) = 1 /\ todo[1][2] = Used /\ todo[1][1] # 0
    BY DEF LastHands, HandingOf
  <1>2. ASSUME LastHands
        PROVE  /\ \A g \in Files : /\ owned[g] \subseteq owned'[g]
                                   /\ owned'[g] \subseteq owned[g] \cup {todo[1][1]}
               /\ \E f \in Files : todo[1][1] \in owned'[f]
    <2>1. \E f \in Files : Give(f, todo[1][1])
      BY <1>1, <1>2 DEF WriteSector
    <2>2. PICK f \in Files : Give(f, todo[1][1])
      BY <2>1
    <2>3. owned' = [owned EXCEPT ![f] = @ \cup {todo[1][1]}]
      BY <2>2 DEF Give
    <2> QED
      BY <2>3 DEF TypeOK
  <1>3. ASSUME ~LastHands
        PROVE  owned' = owned
    BY <1>1, <1>3 DEF WriteSector
  <1> QED
    BY <1>1, <1>2, <1>3

(* No action gives bloc 0, or a bloc of a volume of two, to a file.        *)
LEMMA ZeroStep ==
    ASSUME TypeOK, AllContentOK, BlocZero, Saving, Frontier, [Next]_vars
    PROVE  BlocZero'
  <1> USE Kinds
  <1>1. CASE Mount
    BY <1>1 DEF Mount, BlocZero
  <1>2. CASE Format
    BY <1>2, FormatEffect DEF BlocZero
  <1>3. CASE Take
    BY <1>3, TakeEffect DEF BlocZero
  <1>4. CASE TakeStopped
    BY <1>4 DEF TakeStopped, BlocZero
  <1>5. ASSUME NEW f \in Files, NEW b \in Bloc, GiveBack(f, b)
        PROVE  BlocZero'
    BY <1>5, GiveBackEffect DEF BlocZero
  <1>6. CASE WriteSector
    <2>1. /\ Len(todo) \in Nat \ {0} /\ freed' = freed /\ todo[1][1] \in Bloc
          /\ disk'[0] = IF todo[1][1] = 0 THEN todo[1][2] ELSE disk[0]
      BY <1>6, WriteEffect DEF Bloc
    <2>2. super \in Supers
      BY <2>1 DEF Saving, TypeOK
    <2>3. disk'[0].kind \in {"super", "used"}
      BY <2>1, <2>2 DEF Saving, Zeroed, BlocZero
    <2>4. \A f \in Files : 0 \notin owned'[f]
      BY <1>6, WriteOwned DEF BlocZero
    <2>5. ASSUME NSector = 2
          PROVE  ~LastHands
      <3>1. super.first_free \in {0, 1} /\ ~freed
        BY <2>2, <2>5 DEF AllContentOK, ContentOK, SuperOK, BlocZero
      <3> QED
        BY <2>1, <3>1 DEF Frontier, LastHands, HandingOf, Bloc
    <2>6. NSector = 2 => ~freed' /\ \A f \in Files : owned'[f] = {}
      BY <1>6, <2>1, <2>5, WriteOwned DEF BlocZero
    <2> QED
      BY <2>3, <2>4, <2>6 DEF BlocZero
  <1>7. CASE Exit
    BY <1>7 DEF Exit, BlocZero
  <1>8. CASE UNCHANGED vars
    BY <1>8 DEF vars, BlocZero
  <1> QED
    BY <1>1, <1>2, <1>3, <1>4, <1>5, <1>6, <1>7, <1>8 DEF Next

(* Every action preserves what the writes to come do to bloc 0.            *)
LEMMA SavingStep ==
    ASSUME TypeOK, AllContentOK, BlocZero, Saving, [Next]_vars
    PROVE  Saving'
  <1> USE Kinds
  <1>1. CASE Mount
    <2>1. super = NoSuper /\ todo' = todo /\ disk' = disk /\ super' = disk[0]
      BY <1>1, MountLoads DEF Mount
    <2>2. Len(todo') = 0
      BY <2>1 DEF Saving
    <2>3. Zeroed(super', disk'[0])
      BY <2>1 DEF Zeroed
    <2> QED
      BY <2>2, <2>3 DEF Saving
  <1>2. CASE Format
    <2>1. super' = Super(0, NSector - 1, 1) /\ todo' = Log2(0, super', 1, RunHeader)
      BY <1>2, FormatEffect
    <2>2. super' # NoSuper
      BY <2>1 DEF Super, NoSuper
    <2>3. Len(todo') = 2 /\ todo'[1] = <<0, super'>> /\ todo'[1][2] = super' /\ todo'[2][1] = 1
      BY <2>1, Entries2
    <2> QED
      BY <2>2, <2>3 DEF Saving, Zeroed
  <1>3. CASE Take
    <2>1. disk' = disk /\ Len(todo) = 0 /\ super # NoSuper
      BY <1>3, TakeEffect
    <2>2. Zeroed(super, disk[0])
      BY <2>1 DEF Saving
    <2>3. CASE super.nb_free_blc = 0 /\ super' = super /\ todo' = Log1(0, Used)
      BY <2>1, <2>2, <2>3, Entries1 DEF Saving, Zeroed
    <2>4. CASE super' = Super(0, 0, 0) /\ todo' = Log2(0, super', 0, Used)
      <3>1. super'.nb_free_blc = 0 /\ super' # NoSuper
        BY <2>4 DEF Super, NoSuper
      <3>2. /\ Len(todo') = 2 /\ todo'[1] = <<0, super'>> /\ todo'[1][2] = super'
            /\ todo'[2][2] = Used
        BY <2>4, Entries2
      <3> QED
        BY <3>1, <3>2 DEF Saving, Zeroed
    <2>5. ASSUME NEW next \in Bloc \ {0},
                 super' = Super(0, super.nb_free_blc - 1, next),
                 todo' = Log2(0, super', next, Used)
          PROVE  Saving'
      <3>1. super' # NoSuper
        BY <2>5 DEF Super, NoSuper
      <3>2. /\ Len(todo') = 2 /\ todo'[1] = <<0, super'>> /\ todo'[1][2] = super'
            /\ todo'[2][1] = next
        BY <2>5, Entries2
      <3> QED
        BY <3>1, <3>2 DEF Saving, Zeroed
    <2>6. ASSUME NEW first \in 1 .. NSector - 1, NEW head,
                 super' = Super(0, super.nb_free_blc - 1, first + 1),
                 todo' = Log3(0, super', first + 1, head, first, Used)
          PROVE  Saving'
      <3>1. super' # NoSuper
        BY <2>6 DEF Super, NoSuper
      <3>2. /\ Len(todo') = 3 /\ todo'[1] = <<0, super'>> /\ todo'[1][2] = super'
            /\ todo'[2][1] = first + 1 /\ todo'[3][1] = first
        BY <2>6, Entries3
      <3> QED
        BY <3>1, <3>2 DEF Saving, Zeroed
    <2> QED
      BY <1>3, <2>3, <2>4, <2>5, <2>6, TakeEffect
  <1>4. CASE TakeStopped
    BY <1>4, Empty DEF TakeStopped, Idle, Saving
  <1>5. ASSUME NEW f \in Files, NEW b \in Bloc, GiveBack(f, b)
        PROVE  Saving'
    <2> DEFINE header == FreeBlc(1, super.first_free)
    <2>1. /\ b # 0 /\ super' = Super(0, super.nb_free_blc + 1, b)
          /\ todo' = Log3(0, super', b, Zero, b, header)
      BY <1>5, GiveBackEffect
    <2> HIDE DEF header
    <2>2. super' # NoSuper
      BY <2>1 DEF Super, NoSuper
    <2>3. /\ Len(todo') = 3 /\ todo'[1] = <<0, super'>> /\ todo'[1][2] = super'
          /\ todo'[2][1] = b /\ todo'[3][1] = b
      BY <2>1, Entries3
    <2>4. \A i \in 1 .. Len(todo') : todo'[i][1] = 0 => Zeroed(super', todo'[i][2])
      <3>1. \A i \in 1 .. 3 : todo'[i][1] = 0 => i = 1
        BY ONLY <2>1, <2>3
      <3>2. Zeroed(super', todo'[1][2])
        BY <2>3 DEF Zeroed
      <3> QED
        BY ONLY <2>3, <3>1, <3>2
    <2>5. Len(todo') > 0 /\ todo'[1] = <<0, super'>>
      BY ONLY <2>3
    <2> QED
      BY ONLY <2>2, <2>4, <2>5 DEF Saving
  <1>6. CASE WriteSector
    <2>5. 0 \in Bloc
      BY DEF Bloc
    <2>1. /\ Len(todo) \in Nat \ {0} /\ Len(todo') = Len(todo) - 1
          /\ super' = super
          /\ disk'[0] = IF todo[1][1] = 0 THEN todo[1][2] ELSE disk[0]
          /\ \A i \in 1 .. Len(todo) - 1 : todo'[i] = todo[i + 1]
      <3>1. /\ Len(todo) \in Nat \ {0} /\ Len(todo') = Len(todo) - 1
            /\ super' = super
            /\ \A b \in Bloc :
                  disk'[b] = IF b = todo[1][1] THEN todo[1][2] ELSE disk[b]
            /\ \A i \in 1 .. Len(todo) - 1 : todo'[i] = todo[i + 1]
        BY <1>6, WriteEffect
      <3>2. disk'[0] = IF todo[1][1] = 0 THEN todo[1][2] ELSE disk[0]
        <4>1. disk'[0] = IF 0 = todo[1][1] THEN todo[1][2] ELSE disk[0]
          BY ONLY <2>5, <3>1
        <4> QED
          BY ONLY <4>1
      <3> QED
        BY ONLY <3>1, <3>2
    <2>2. super # NoSuper
      <3>1. Len(todo) # 0
        BY ONLY <2>1
      <3> QED
        BY ONLY Saving, <3>1 DEF Saving
    <2>6. /\ \A i \in 1 .. Len(todo) : todo[i][1] = 0 => Zeroed(super, todo[i][2])
          /\ Zeroed(super, disk[0]) \/ (Len(todo) > 0 /\ todo[1] = <<0, super>>)
      BY ONLY Saving, <2>2 DEF Saving
    <2>3. \A i \in 1 .. Len(todo') : todo'[i][1] = 0 => Zeroed(super', todo'[i][2])
      BY ONLY <2>1, <2>6
    <2>4. Zeroed(super', disk'[0])
      <3>1. CASE todo[1][1] = 0
        BY ONLY <2>1, <2>6, <3>1
      <3>2. CASE todo[1][1] # 0
        BY ONLY <2>1, <2>6, <3>2
      <3> QED
        BY <3>1, <3>2
    <2> QED
      BY ONLY <2>1, <2>2, <2>3, <2>4 DEF Saving
  <1>7. CASE Exit
    BY <1>7 DEF Exit, Saving
  <1>8. CASE UNCHANGED vars
    BY <1>8 DEF vars, Saving
  <1> QED
    BY <1>1, <1>2, <1>3, <1>4, <1>5, <1>6, <1>7, <1>8 DEF Next

(* Every action keeps the blocs given below the first free one.            *)
LEMMA FrontierStep ==
    ASSUME TypeOK, AllContentOK, BlocZero, Saving, Frontier, [Next]_vars
    PROVE  Frontier'
  <1> USE Kinds
  <1> SUFFICES ASSUME ~freed'
               PROVE  Frontier'
    BY DEF Frontier
  <1> DEFINE OnDisk == disk'[0].kind = "super" =>
                          \A f \in Files : owned'[f] \subseteq 1 .. disk'[0].first_free - 1
             InMemory == super' # NoSuper =>
                          \A f \in Files : owned'[f] \subseteq 1 .. EdgeOf(todo', super') - 1
             Next1 == HandingOf(todo') => todo'[Len(todo')][1] = super'.first_free - 1
  <1> SUFFICES OnDisk /\ InMemory /\ Next1
    BY DEF Frontier
  <1>1. CASE Mount
    <2>1. /\ super = NoSuper /\ todo' = todo /\ disk' = disk /\ owned' = owned
          /\ freed' = freed /\ super' = disk[0] /\ disk[0].kind = "super"
      BY <1>1, MountLoads DEF Mount
    <2>2. ~HandingOf(todo')
      BY <2>1 DEF Saving, HandingOf
    <2> QED
      BY <2>1, <2>2 DEF Frontier, EdgeOf
  <1>2. CASE Format
    <2>1. /\ todo' = Log2(0, super', 1, RunHeader)
          /\ \A f \in Files : owned'[f] = {}
      BY <1>2, FormatEffect
    <2>2. Len(todo') = 2 /\ todo'[2][2] = RunHeader
      BY <2>1, Entries2
    <2>3. ~HandingOf(todo')
      BY <2>2 DEF HandingOf, RunHeader, FreeBlc, Used
    <2> QED
      BY <2>1, <2>3
  <1>3. CASE Take
    <2>1. /\ disk' = disk /\ owned' = owned /\ ~freed /\ Len(todo) = 0
          /\ super # NoSuper /\ super \in Supers
      BY <1>3, TakeEffect
    <2>2. OnDisk
      BY <2>1 DEF Frontier
    <2>3. \A f \in Files : owned[f] \subseteq 1 .. super.first_free - 1
      BY <2>1 DEF Frontier, EdgeOf, HandingOf
    <2>4. CASE super' = super /\ todo' = Log1(0, Used)
      <3>1. ~HandingOf(todo')
        BY <2>4, Entries1 DEF HandingOf
      <3> QED
        BY <2>1, <2>2, <2>3, <2>4, <3>1 DEF EdgeOf
    <2>5. CASE NSector = 2 /\ todo' = Log2(0, super', 0, Used)
      <3>1. Len(todo') = 2 /\ todo'[2][1] = 0
        BY <2>5, Entries2
      <3>2. ~HandingOf(todo')
        BY <3>1 DEF HandingOf
      <3>3. \A f \in Files : owned'[f] = {}
        BY <2>1, <2>5 DEF BlocZero
      <3> QED
        BY <2>2, <3>2, <3>3
    <2>6. ASSUME NEW first \in 1 .. NSector - 1, first = super.first_free, NEW head,
                 super' = Super(0, super.nb_free_blc - 1, first + 1),
                 todo' = Log3(0, super', first + 1, head, first, Used)
          PROVE  InMemory /\ Next1
      <3>1. Len(todo') = 3 /\ todo'[3][1] = first /\ todo'[3][2] = Used
        BY <2>6, Entries3
      <3>2. HandingOf(todo') /\ super'.first_free = first + 1
        BY <2>6, <3>1 DEF HandingOf, Super
      <3>3. EdgeOf(todo', super') = first
        BY <3>2 DEF EdgeOf
      <3> QED
        BY <2>1, <2>3, <2>6, <3>1, <3>2, <3>3
    <2> QED
      BY <1>3, <2>1, <2>2, <2>4, <2>5, <2>6, TakeEffect
  <1>4. CASE TakeStopped
    <2>1. /\ super' = NoSuper /\ todo' = todo /\ disk' = disk /\ owned' = owned
          /\ freed' = freed /\ todo = << >>
      BY <1>4 DEF TakeStopped, Idle
    <2>2. ~HandingOf(todo')
      BY <2>1, Empty DEF HandingOf
    <2> QED
      BY <2>1, <2>2 DEF Frontier
  <1>5. ASSUME NEW f \in Files, NEW b \in Bloc, GiveBack(f, b)
        PROVE  FALSE
    BY <1>5, GiveBackEffect
  <1>6. CASE WriteSector
    <2>1. /\ Len(todo) \in Nat \ {0} /\ Len(todo') = Len(todo) - 1
          /\ super' = super /\ ~freed /\ todo[1][1] \in Bloc
          /\ disk'[0] = IF todo[1][1] = 0 THEN todo[1][2] ELSE disk[0]
          /\ \A i \in 1 .. Len(todo) - 1 : todo'[i] = todo[i + 1]
      BY <1>6, WriteEffect DEF Bloc
    <2>2. super # NoSuper /\ super \in Supers
      BY <2>1 DEF Saving, TypeOK
    <2>3. super.first_free \in Nat
      BY <2>2 DEF Supers, Bloc
    <2>4. disk'[0].kind = "super" => disk'[0] = super \/ (disk'[0] = disk[0] /\ ~LastHands)
      BY <2>1, <2>2 DEF Saving, Zeroed, LastHands, HandingOf
    <2>5. CASE LastHands
      <3>1. todo[1][1] = super.first_free - 1 /\ todo[1][1] # 0 /\ Len(todo) = 1
        BY <2>1, <2>5 DEF LastHands, Frontier, HandingOf
      <3>2. \A f \in Files : owned[f] \subseteq 1 .. super.first_free - 2
        BY <2>1, <2>2, <2>3, <2>5 DEF LastHands, Frontier, EdgeOf
      <3>3. \A f \in Files : owned'[f] \subseteq owned[f] \cup {super.first_free - 1}
        BY <1>6, <2>5, <3>1, WriteOwned
      <3>4. super.first_free - 1 \in 1 .. super.first_free - 1
        BY <2>1, <2>3, <3>1 DEF Bloc
      <3>5. \A f \in Files : owned'[f] \subseteq 1 .. super.first_free - 1
        BY <2>3, <3>2, <3>3, <3>4
      <3>6. ~HandingOf(todo')
        BY <2>1, <3>1 DEF HandingOf
      <3> QED
        BY <2>1, <2>4, <2>5, <3>5, <3>6 DEF EdgeOf
    <2>6. CASE ~LastHands
      <3>1. owned' = owned
        BY <1>6, <2>6, WriteOwned
      <3>2. /\ HandingOf(todo') <=> HandingOf(todo)
            /\ HandingOf(todo') => todo'[Len(todo')] = todo[Len(todo)]
        BY <2>1, <2>6 DEF LastHands, HandingOf
      <3>3. EdgeOf(todo', super') = EdgeOf(todo, super)
        BY <2>1, <3>2 DEF EdgeOf
      <3>4. InMemory /\ Next1
        BY <2>1, <2>2, <3>1, <3>2, <3>3 DEF Frontier
      <3>5. \A f \in Files : owned[f] \subseteq 1 .. super.first_free - 1
        BY <2>1, <2>2, <2>3 DEF Frontier, EdgeOf
      <3> QED
        BY <2>1, <2>4, <3>1, <3>4, <3>5 DEF Frontier
    <2> QED
      BY <2>5, <2>6
  <1>7. CASE Exit
    <2>1. super' = NoSuper /\ Len(todo') = 0 /\ disk' = disk /\ owned' = owned /\ ~freed
      BY <1>7 DEF Exit
    <2> QED
      BY <2>1 DEF Frontier, HandingOf
  <1>8. CASE UNCHANGED vars
    BY <1>8 DEF vars, Frontier
  <1> QED
    BY <1>1, <1>2, <1>3, <1>4, <1>5, <1>6, <1>7, <1>8 DEF Next

(* Every action leaves a header, or a write of one to come, at first_free.  *)
LEMMA HeadStep ==
    ASSUME TypeOK, AllContentOK, BlocZero, Saving, HeadReady, [Next]_vars
    PROVE  HeadReady'
  <1> USE Kinds
  <1> SUFFICES ASSUME ~freed', ~cut'
               PROVE  HeadReady'
    BY DEF HeadReady
  <1>1. CASE Mount
    <2>1. /\ super = NoSuper /\ todo' = todo /\ disk' = disk /\ ~freed /\ ~cut
          /\ super' = disk[0] /\ disk[0].kind = "super"
      BY <1>1, MountLoads DEF Mount
    <2>2. Len(todo') = 0 /\ super' # NoSuper
      BY <2>1 DEF Saving
    <2> QED
      BY <2>1, <2>2 DEF HeadReady
  <1>2. CASE Format
    <2>1. /\ super' = Super(0, NSector - 1, 1)
          /\ todo' = Log2(0, super', 1, RunHeader)
      BY <1>2, FormatEffect
    <2>2. super'.first_free = 1 /\ super' # NoSuper
      BY <2>1 DEF Super, NoSuper
    <2>3. /\ Len(todo') = 2 /\ todo'[1][1] = 0
          /\ todo'[2][1] = 1 /\ todo'[2][2] = RunHeader
      BY <2>1, Entries2
    <2>4. RunHeader.kind = "free"
      BY DEF RunHeader, FreeBlc
    <2> QED
      BY <2>2, <2>3, <2>4 DEF HeadReady
  <1>3. CASE Take
    <2>1. Len(todo) = 0 /\ super # NoSuper /\ ~freed
      BY <1>3, TakeEffect
    <2>2. CASE super' = super /\ super.nb_free_blc = 0
      BY <2>1, <2>2 DEF HeadReady
    <2>3. CASE super' = Super(0, 0, 0)
      <3>1. super'.nb_free_blc = 0 /\ super' # NoSuper
        BY <2>3 DEF Super, NoSuper
      <3> QED
        BY <3>1 DEF HeadReady
    <2>4. ASSUME NEW first \in 1 .. NSector - 1, NEW head, head.kind = "free",
                 super' = Super(0, super.nb_free_blc - 1, first + 1),
                 todo' = Log3(0, super', first + 1, head, first, Used)
          PROVE  HeadReady'
      <3>1. /\ Len(todo') = 3 /\ todo'[1][1] = 0
            /\ todo'[2][1] = first + 1 /\ todo'[2][2] = head /\ todo'[3][1] = first
        BY <2>4, Entries3
      <3>2. super'.first_free = first + 1 /\ super' # NoSuper
        BY <2>4 DEF Super, NoSuper
      <3>3. \A i \in 1 .. Len(todo') : todo'[i][1] = first + 1 => i = 2
        <4>1. 0 # first + 1 /\ first # first + 1
          OBVIOUS
        <4>2. \A i \in 1 .. 3 : i = 1 \/ i = 2 \/ i = 3
          OBVIOUS
        <4> QED
          BY ONLY <3>1, <4>1, <4>2
      <3>4. todo'[2][2].kind = "free"
        BY ONLY <2>4, <3>1
      <3>5. 2 \in 1 .. Len(todo')
        BY <3>1
      <3> QED
        BY ONLY <3>1, <3>2, <3>3, <3>4, <3>5 DEF HeadReady
    <2> QED
      BY <1>3, <2>1, <2>2, <2>3, <2>4, TakeEffect
  <1>4. CASE TakeStopped
    <2>1. /\ super' = NoSuper /\ disk' = disk /\ todo = << >> /\ super # NoSuper
          /\ ~freed /\ ~cut
      BY <1>4 DEF TakeStopped, Idle
    <2>2. Len(todo) = 0
      BY <2>1, Empty
    <2>3. disk[0].kind = "super" => disk[0] = super
      BY <2>1, <2>2 DEF Saving, Zeroed
    <2> QED
      BY <2>1, <2>2, <2>3 DEF HeadReady
  <1>5. ASSUME NEW f \in Files, NEW b \in Bloc, GiveBack(f, b)
        PROVE  FALSE
    BY <1>5, GiveBackEffect
  <1>6. CASE WriteSector
    <2>1. /\ Len(todo) \in Nat \ {0} /\ Len(todo') = Len(todo) - 1
          /\ super' = super /\ ~freed /\ ~cut
          /\ \A b \in Bloc : disk'[b] = IF b = todo[1][1] THEN todo[1][2] ELSE disk[b]
          /\ \A i \in 1 .. Len(todo) - 1 : todo'[i] = todo[i + 1]
      BY <1>6, WriteEffect
    <2>2. super # NoSuper /\ super \in Supers
      BY <2>1 DEF Saving, TypeOK
    <2>3. super.first_free \in Bloc
      BY <2>2 DEF Supers
    <2> SUFFICES ASSUME super.nb_free_blc > 0
                 PROVE  /\ \A i \in 1 .. Len(todo') :
                              todo'[i][1] = super.first_free => todo'[i][2].kind = "free"
                        /\ \/ disk'[super.first_free].kind = "free"
                           \/ \E i \in 1 .. Len(todo') : todo'[i][1] = super.first_free
      BY <2>1, <2>2 DEF HeadReady
    <2>4. \A i \in 1 .. Len(todo) :
             todo[i][1] = super.first_free => todo[i][2].kind = "free"
      BY <2>1, <2>2 DEF HeadReady
    <2>5. \A i \in 1 .. Len(todo') :
             todo'[i][1] = super.first_free => todo'[i][2].kind = "free"
      BY <2>1, <2>4
    <2>6. CASE todo[1][1] = super.first_free
      BY <2>1, <2>3, <2>4, <2>5, <2>6
    <2>7. CASE todo[1][1] # super.first_free /\ disk[super.first_free].kind = "free"
      BY <2>1, <2>3, <2>5, <2>7
    <2>8. ASSUME todo[1][1] # super.first_free,
                 NEW i \in 1 .. Len(todo), todo[i][1] = super.first_free
          PROVE  \E j \in 1 .. Len(todo') : todo'[j][1] = super.first_free
      <3>1. i - 1 \in 1 .. Len(todo') /\ todo'[i - 1] = todo[i]
        BY <2>1, <2>8
      <3> QED
        BY <2>8, <3>1
    <2> QED
      BY <2>1, <2>2, <2>5, <2>6, <2>7, <2>8 DEF HeadReady
  <1>7. CASE Exit
    <2>1. /\ super' = NoSuper /\ disk' = disk /\ super # NoSuper
          /\ freed' = freed /\ cut' = IF todo = << >> THEN cut ELSE TRUE
      BY <1>7 DEF Exit
    <2>5. todo = << >>
      BY <2>1
    <2>6. cut' = cut
      BY <2>1, <2>5
    <2>4. ~freed /\ ~cut /\ todo = << >>
      BY <2>1, <2>5, <2>6
    <2>2. Len(todo) = 0
      BY <2>4, Empty
    <2>3. disk[0].kind = "super" => disk[0] = super
      BY <2>1, <2>2 DEF Saving, Zeroed
    <2> QED
      BY <2>1, <2>2, <2>3, <2>4 DEF HeadReady
  <1>8. CASE UNCHANGED vars
    BY <1>8 DEF vars, HeadReady
  <1> QED
    BY <1>1, <1>2, <1>3, <1>4, <1>5, <1>6, <1>7, <1>8 DEF Next

(* Every action keeps all the blocs below the first free one given.        *)
LEMMA GapStep ==
    ASSUME TypeOK, AllContentOK, BlocZero, Saving, Frontier, NoGap, [Next]_vars
    PROVE  NoGap'
  <1> USE Kinds
  <1> SUFFICES ASSUME ~freed', ~cut', NSector > 2
               PROVE  NoGap'
    BY DEF NoGap
  <1>1. CASE Mount
    <2>1. /\ super = NoSuper /\ todo' = todo /\ owned' = owned /\ ~freed /\ ~cut
          /\ super' = disk[0] /\ disk[0].kind = "super"
      BY <1>1, MountLoads DEF Mount
    <2>2. ~HandingOf(todo') /\ super' # NoSuper
      BY <2>1 DEF Saving, HandingOf
    <2>3. AllGiven(super.first_free)' <=> AllGiven(super'.first_free)
      BY <2>1 DEF AllGiven
    <2> QED
      BY <2>1, <2>2 DEF NoGap, EdgeOf, AllGiven
  <1>2. CASE Format
    <2>1. super' = Super(0, NSector - 1, 1) /\ todo' = Log2(0, super', 1, RunHeader)
      BY <1>2, FormatEffect
    <2>2. Len(todo') = 2 /\ todo'[2][2] = RunHeader
      BY <2>1, Entries2
    <2>3. ~HandingOf(todo')
      BY <2>2 DEF HandingOf, RunHeader, FreeBlc, Used
    <2>4. super'.first_free = 1 /\ super' # NoSuper
      BY <2>1 DEF Super, NoSuper
    <2> QED
      BY <2>3, <2>4 DEF NoGap, EdgeOf, AllGiven
  <1>3. CASE Take
    <2>1. /\ owned' = owned /\ ~freed /\ ~cut /\ Len(todo) = 0 /\ super # NoSuper
      BY <1>3, TakeEffect
    <2>2. AllGiven(super.first_free)
      BY <2>1 DEF NoGap, EdgeOf, HandingOf
    <2>3. CASE super' = super /\ todo' = Log1(0, Used)
      <3>1. ~HandingOf(todo')
        BY <2>3, Entries1 DEF HandingOf
      <3> QED
        BY <2>1, <2>2, <2>3, <3>1 DEF NoGap, EdgeOf, AllGiven
    <2>4. ASSUME NEW first \in 1 .. NSector - 1, first = super.first_free, NEW head,
                 super' = Super(0, super.nb_free_blc - 1, first + 1),
                 todo' = Log3(0, super', first + 1, head, first, Used)
          PROVE  NoGap'
      <3>1. Len(todo') = 3 /\ todo'[3][1] = first /\ todo'[3][2] = Used
        BY <2>4, Entries3
      <3>2. HandingOf(todo') /\ super'.first_free = first + 1 /\ super' # NoSuper
        BY <2>4, <3>1 DEF HandingOf, Super, NoSuper
      <3>3. EdgeOf(todo', super') = first
        BY <3>2 DEF EdgeOf
      <3> QED
        BY <2>1, <2>2, <2>4, <3>2, <3>3 DEF NoGap, AllGiven
    <2> QED
      BY <1>3, <2>1, <2>3, <2>4, TakeEffect
  <1>4. CASE TakeStopped
    <2>1. /\ super' = NoSuper /\ disk' = disk /\ owned' = owned
          /\ todo = << >> /\ super # NoSuper /\ ~freed /\ ~cut
      BY <1>4 DEF TakeStopped, Idle
    <2>2. Len(todo) = 0
      BY <2>1, Empty
    <2>3. disk[0].kind = "super" => disk[0] = super
      BY <2>1, <2>2 DEF Saving, Zeroed
    <2> QED
      BY <2>1, <2>2, <2>3 DEF NoGap, EdgeOf, HandingOf, AllGiven
  <1>5. ASSUME NEW f \in Files, NEW b \in Bloc, GiveBack(f, b)
        PROVE  FALSE
    BY <1>5, GiveBackEffect
  <1>6. CASE WriteSector
    <2>1. /\ Len(todo) \in Nat \ {0} /\ Len(todo') = Len(todo) - 1
          /\ super' = super /\ ~freed /\ ~cut
          /\ \A i \in 1 .. Len(todo) - 1 : todo'[i] = todo[i + 1]
      BY <1>6, WriteEffect
    <2>2. super # NoSuper /\ super \in Supers
      BY <2>1 DEF Saving, TypeOK
    <2>3. super.first_free \in Nat
      BY <2>2 DEF Supers, Bloc
    <2>4. AllGiven(EdgeOf(todo, super))
      BY <2>1, <2>2 DEF NoGap
    <2>5. CASE LastHands
      <3>1. todo[1][1] = super.first_free - 1 /\ EdgeOf(todo, super) = super.first_free - 1
        BY <2>1, <2>5 DEF LastHands, Frontier, EdgeOf
      <3>2. EdgeOf(todo', super') = super.first_free
        BY <2>1, <2>5 DEF LastHands, HandingOf, EdgeOf
      <3>3. /\ \A f \in Files : owned[f] \subseteq owned'[f]
            /\ \E f \in Files : super.first_free - 1 \in owned'[f]
        BY <1>6, <2>5, <3>1, WriteOwned
      <3>4. \A b \in 1 .. super.first_free - 1 : \E f \in Files : b \in owned'[f]
        <4> SUFFICES ASSUME NEW b \in 1 .. super.first_free - 1
                     PROVE  \E f \in Files : b \in owned'[f]
          OBVIOUS
        <4>1. b = super.first_free - 1 \/ b \in 1 .. super.first_free - 1 - 1
          BY <2>3
        <4> QED
          BY <2>4, <3>1, <3>3, <4>1 DEF AllGiven
      <3> QED
        BY <2>1, <2>2, <3>2, <3>4 DEF NoGap, AllGiven
    <2>6. CASE ~LastHands
      <3>1. owned' = owned
        BY <1>6, <2>6, WriteOwned
      <3>2. HandingOf(todo') <=> HandingOf(todo)
        BY <2>1, <2>6 DEF LastHands, HandingOf
      <3>3. EdgeOf(todo', super') = EdgeOf(todo, super)
        BY <2>1, <3>2 DEF EdgeOf
      <3> QED
        BY <2>1, <2>2, <2>4, <3>1, <3>3 DEF NoGap, AllGiven
    <2> QED
      BY <2>5, <2>6
  <1>7. CASE Exit
    <2>1. /\ super' = NoSuper /\ disk' = disk /\ owned' = owned /\ super # NoSuper
          /\ freed' = freed /\ cut' = IF todo = << >> THEN cut ELSE TRUE
      BY <1>7 DEF Exit
    <2>5. todo = << >>
      BY <2>1
    <2>6. cut' = cut
      BY <2>1, <2>5
    <2>4. ~freed /\ ~cut /\ todo = << >>
      BY <2>1, <2>5, <2>6
    <2>2. Len(todo) = 0
      BY <2>4, Empty
    <2>3. disk[0].kind = "super" => disk[0] = super
      BY <2>1, <2>2 DEF Saving, Zeroed
    <2> QED
      BY <2>1, <2>2, <2>3, <2>4 DEF NoGap, EdgeOf, HandingOf, AllGiven
  <1>8. CASE UNCHANGED vars
    BY <1>8 DEF vars, NoGap, AllGiven
  <1> QED
    BY <1>1, <1>2, <1>3, <1>4, <1>5, <1>6, <1>7, <1>8 DEF Next

-----------------------------------------------------------------------------
(* The invariant holds, and what it implies.                               *)

(* The volume mknfs has just made satisfies the invariant.                 *)
LEMMA InitInvariant == Init => IInv
  <1> USE Kinds
  <1> DEFINE zero == [b \in Bloc |-> Zero]
             s == Super(0, NSector - 1, 1)
  <1> SUFFICES ASSUME Init
               PROVE  IInv
    OBVIOUS
  <1>1. Is(InitSuper(Machine(zero, NoSuper)), Put(Put(zero, 0, s), 1, RunHeader), s,
           Log2(0, s, 1, RunHeader))
    BY InitSuperIs
  <1>2. disk = Put(Put(zero, 0, s), 1, RunHeader)
    BY <1>1 DEF Init, Is
  <1>3. 0 \in Bloc /\ 1 \in Bloc /\ NSector - 1 \in Nat
    BY DEF Bloc
  <1>4. s \in Supers /\ RunHeader \in FreeBlcs
    BY <1>3 DEF RunHeader
  <1>5. \A b \in Bloc : disk[b] = IF b = 0 THEN s ELSE IF b = 1 THEN RunHeader ELSE Zero
    BY <1>2, <1>3 DEF Put
  <1>6. disk \in [Bloc -> Contents]
    <2>1. zero \in [Bloc -> Contents] /\ s \in Contents /\ RunHeader \in Contents
      BY <1>4
    <2> HIDE DEF zero, s
    <2>2. Put(zero, 0, s) \in [Bloc -> Contents]
      BY ONLY <1>3, <2>1 DEF Put
    <2> QED
      BY ONLY <1>2, <1>3, <2>1, <2>2 DEF Put
  <1>7. /\ super = NoSuper /\ todo = << >> /\ owned = [f \in Files |-> {}]
        /\ given = {} /\ ~freed /\ ~cut
    BY DEF Init
  <1>8. TypeOK
    <2>1. freed \in BOOLEAN /\ cut \in BOOLEAN
      <3>1. freed = FALSE /\ cut = FALSE
        BY DEF Init
      <3> QED
        BY ONLY <3>1, Zenon
    <2> QED
      BY <1>6, <1>7, <2>1 DEF TypeOK
  <1>9. Len(todo) = 0
    BY <1>7, <1>8, Empty
  <1>10. ContentOK(freed, s) /\ ContentOK(freed, Zero) /\ ContentOK(freed, RunHeader)
    BY DEF ContentOK, SuperOK, HeaderOK, Super, Zero, RunHeader, FreeBlc
  <1>11. AllContentOK
    BY <1>5, <1>7, <1>9, <1>10 DEF AllContentOK
  <1>12. disk[0] = s /\ disk[1] = RunHeader /\ s.first_free = 1 /\ s.kind = "super"
    BY <1>3, <1>5 DEF Super
  <1>13. BlocZero /\ Saving
    BY <1>7, <1>9, <1>12 DEF BlocZero, Saving
  <1>14. Frontier /\ HeadReady /\ NoGap
    BY <1>4, <1>7, <1>9, <1>12
       DEF Frontier, HeadReady, NoGap, HandingOf, EdgeOf, AllGiven
  <1> QED
    BY <1>8, <1>11, <1>13, <1>14 DEF IInv

(***************************************************************************)
(* What new_bloc, free_bloc and mknfs rely on is kept by all of them, and   *)
(* by a kill at any sector write.                                          *)
(***************************************************************************)
THEOREM Invariance == Spec => []IInv
  <1>1. Init => IInv
    BY InitInvariant
  <1>2. IInv /\ [Next]_vars => IInv'
    BY TypeStep, ContentStep, ZeroStep, SavingStep, FrontierStep, HeadStep, GapStep
       DEF IInv
  <1> QED
    BY <1>1, <1>2, PTL DEF Spec

(***************************************************************************)
(* The variables keep their types: in particular no bloc number new_bloc    *)
(* computes lies behind the sector that follows the volume.                *)
(***************************************************************************)
THEOREM TypeCorrect == Spec => []TypeOK
  <1>1. IInv => TypeOK
    BY DEF IInv
  <1> QED
    BY <1>1, Invariance, PTL

(***************************************************************************)
(* Before the first free_bloc a bloc handed out lies in the volume and      *)
(* belongs to no file, even when calls have been cut short by a kill.       *)
(***************************************************************************)
THEOREM NewBlocsAreFresh == Spec => []NewBlocIsFresh
  <1>1. IInv => NewBlocIsFresh
    <2> SUFFICES ASSUME IInv, ~freed, NEW b \in Bloc \ {NULL_BLOC}, Handed(b)
                 PROVE  /\ b \in 1 .. NSector - 1
                        /\ \A f \in Files : b \notin owned[f]
      BY DEF NewBlocIsFresh
    <2>1. todo # << >> /\ todo[Len(todo)] = <<b, Used>>
      BY DEF Handed
    <2>2. Len(todo) > 0
      <3>1. Len(todo) \in Nat
        BY LenProperties DEF IInv, TypeOK
      <3> QED
        BY <2>1, <3>1, Empty DEF IInv
    <2>3. HandingOf(todo)
      BY <2>1, <2>2 DEF HandingOf
    <2>4. super # NoSuper /\ super \in Supers
      BY <2>2 DEF IInv, Saving, TypeOK
    <2>5. b = super.first_free - 1 /\ \A f \in Files : owned[f] \subseteq 1 .. b - 1
      BY <2>1, <2>3, <2>4 DEF IInv, Frontier, EdgeOf
    <2>6. super.first_free \in Nat /\ super.first_free <= NSector
      BY <2>4 DEF Supers, Bloc
    <2>7. b \in Nat /\ b # 0
      BY DEF Bloc
    <2>8. b \in 1 .. NSector - 1
      BY ONLY <2>5, <2>6, <2>7, NSectorAssumption
    <2>9. \A f \in Files : b \notin owned[f]
      BY ONLY <2>5, <2>7
    <2> QED
      BY <2>8, <2>9
  <1> QED
    BY <1>1, Invariance, PTL

(***************************************************************************)
(* Before the first free_bloc, and if no call was cut short, the assert of  *)
(* read_free_bloc never stops a program.                                   *)
(***************************************************************************)
THEOREM HeadsAreHeaders == Spec => []HeadIsAHeader
  <1>1. IInv => HeadIsAHeader
    BY Empty DEF IInv, HeadReady, HeadIsAHeader, Idle
  <1> QED
    BY <1>1, Invariance, PTL

(***************************************************************************)
(* Before the first free_bloc, and if no call was cut short, every bloc is  *)
(* the super bloc, counted free, or given to a file.                        *)
(***************************************************************************)
THEOREM NoBlocIsLost == Spec => []NoBlocLost
  <1>1. IInv => NoBlocLost
    <2> SUFFICES ASSUME IInv, Idle, ~freed, ~cut, NSector > 2
                 PROVE  UNION { owned[f] : f \in Files }
                          = (1 .. NSector - 1)
                              \ (super.first_free ..
                                    super.first_free + super.nb_free_blc - 1)
      BY DEF NoBlocLost
    <2>1. super # NoSuper /\ super \in Supers /\ Len(todo) = 0
      BY Empty DEF Idle, IInv, TypeOK
    <2>2. super.first_free \in Nat /\ super.nb_free_blc \in Nat
      BY <2>1 DEF Supers, Bloc
    <2>3. super.first_free > 0 /\ super.first_free + super.nb_free_blc = NSector
      <3>1. SuperOK(freed, super) /\ super.kind = "super"
        BY <2>1, Kinds DEF IInv, AllContentOK, ContentOK
      <3> QED
        BY <3>1 DEF SuperOK
    <2>4. EdgeOf(todo, super) = super.first_free
      BY <2>1 DEF EdgeOf, HandingOf
    <2>5. /\ \A f \in Files : owned[f] \subseteq 1 .. super.first_free - 1
          /\ \A b \in 1 .. super.first_free - 1 : \E f \in Files : b \in owned[f]
      BY <2>1, <2>4 DEF IInv, Frontier, NoGap, AllGiven
    <2>6. UNION { owned[f] : f \in Files } = 1 .. super.first_free - 1
      BY <2>5
    <2>7. (1 .. NSector - 1)
            \ (super.first_free .. super.first_free + super.nb_free_blc - 1)
          = 1 .. super.first_free - 1
      BY <2>2, <2>3
    <2> QED
      BY <2>6, <2>7
  <1> QED
    BY <1>1, Invariance, PTL

(***************************************************************************)
(* Between two calls the super bloc on disk is the one in memory, unless    *)
(* the volume is full: whatever was freed, and whatever was killed.         *)
(***************************************************************************)
THEOREM SupersAreSaved == Spec => []SuperIsSaved
  <1>1. IInv => SuperIsSaved
    BY Empty DEF IInv, Saving, Zeroed, SuperIsSaved, Idle
  <1> QED
    BY <1>1, Invariance, PTL

-----------------------------------------------------------------------------
(***************************************************************************)
(* After blocs were freed new_bloc may hand out a bloc that is in use, but  *)
(* never one it has handed out since the last free_bloc: for volumes of     *)
(* every size and any set of files.  A run of blocs is handed out upwards,  *)
(* and the header of a single bloc ends the list: what comes behind it is   *)
(* handed out, loses its magic, and stays the head until the next free_bloc.*)
(***************************************************************************)

\* The super bloc of the running program, or the next one will load.
Current == IF super # NoSuper THEN super ELSE disk[0]

\* The call under way hands out bloc b.
Hands(b) == Len(todo) > 0 /\ todo[Len(todo)][1] = b /\ todo[Len(todo)][2] = Used

\* The blocs handed out since the last free_bloc, that of the call included.
Out == { b \in Bloc \ {0} : b \in given \/ Hands(b) }

\* If c is a header at bloc n, it is that of a run above the blocs of out.
Above(out, c, n) ==
    c.kind = "free" => \A b \in out : c.nb_free_blocs # 1 /\ b < n

\* Write i of the call is the last one to bloc n.
LastTo(i, n) == todo[i][1] = n /\ \A j \in i + 1 .. Len(todo) : todo[j][1] # n

(* What the head of the list will say when the call is over, and that the   *)
(* bloc the call hands out was not given.                                  *)
NoRepeat ==
    ~cut /\ Current.kind = "super" =>
       /\ \A b \in Bloc \ {0} : Hands(b) => b \notin given
       /\ (\A i \in 1 .. Len(todo) : todo[i][1] # Current.first_free)
            => Above(Out, disk[Current.first_free], Current.first_free)
       /\ \A i \in 1 .. Len(todo) :
             LastTo(i, Current.first_free) => Above(Out, todo[i][2], Current.first_free)

-----------------------------------------------------------------------------
(* When no bloc is out, and none will be, there is nothing to repeat.      *)
LEMMA NoneOut ==
    ASSUME given = {}, \A b \in Bloc \ {0} : ~Hands(b)
    PROVE  NoRepeat
  BY DEF NoRepeat, Above, Out

(* Between two calls only the head of the list matters.                    *)
LEMMA BetweenCalls ==
    ASSUME Len(todo) = 0
    PROVE  /\ \A b : ~Hands(b)
           /\ ~cut /\ Current.kind = "super" =>
                (NoRepeat <=> Above(Out, disk[Current.first_free], Current.first_free))
  BY DEF NoRepeat, Hands

(* The first write of a call reaches the disk.                             *)
LEMMA RepeatWrite ==
    ASSUME TypeOK, AllContentOK, BlocZero, Saving, NoRepeat, WriteSector
    PROVE  NoRepeat'
  <1>1. /\ Len(todo) \in Nat \ {0} /\ Len(todo') = Len(todo) - 1
        /\ todo[1][1] \in Bloc
        /\ super' = super /\ cut' = cut
        /\ \A b \in Bloc : disk'[b] = IF b = todo[1][1] THEN todo[1][2] ELSE disk[b]
        /\ \A i \in 1 .. Len(todo) - 1 : todo'[i] = todo[i + 1]
    BY WriteEffect
  <1>2. super # NoSuper /\ super \in Supers
    BY <1>1 DEF Saving, TypeOK
  <1> DEFINE n == super.first_free
  <1>3. n \in Bloc /\ super.kind = "super"
    BY <1>2 DEF Supers
  <1>4. Current = super /\ Current' = super
    BY <1>1, <1>2 DEF Current
  <1>5. CASE cut
    BY <1>1, <1>5 DEF NoRepeat
  <1>6. CASE ~cut
    <2>1. /\ \A b \in Bloc \ {0} : Hands(b) => b \notin given
          /\ (\A i \in 1 .. Len(todo) : todo[i][1] # n) => Above(Out, disk[n], n)
          /\ \A i \in 1 .. Len(todo) : LastTo(i, n) => Above(Out, todo[i][2], n)
      BY <1>3, <1>4, <1>6 DEF NoRepeat
    <2>2. ASSUME NEW b \in Bloc \ {0}, Hands(b)'
          PROVE  Hands(b) /\ given' = given
      <3>1. Len(todo) - 1 > 0 /\ todo'[Len(todo) - 1] = todo[Len(todo)]
        BY <1>1, <2>2 DEF Hands
      <3> QED
        BY <1>1, <2>2, <3>1 DEF Hands, WriteSector
    <2>3. ASSUME NEW b \in Out'
          PROVE  b \in Out
      <3>1. CASE Hands(b)'
        BY <2>2, <2>3, <3>1 DEF Out
      <3>2. CASE b \in given' /\ given' = given
        BY <2>3, <3>2 DEF Out
      <3>3. CASE b \in given' /\ given' # given
        <4>1. /\ Len(todo) = 1 /\ todo[1][2] = Used
              /\ \E f \in Files : Give(f, todo[1][1])
          BY <3>3 DEF WriteSector
        <4>2. given' = given \cup {todo[1][1]}
          BY <4>1 DEF Give
        <4> QED
          BY <2>3, <3>3, <4>1, <4>2 DEF Out, Hands
      <3> QED
        BY <2>3, <3>1, <3>2, <3>3 DEF Out
    <2>4. ASSUME NEW c, Above(Out, c, n)
          PROVE  Above(Out', c, n)
      BY <2>3, <2>4 DEF Above
    <2>5. \A b \in Bloc \ {0} : Hands(b)' => b \notin given'
      BY <2>1, <2>2
    <2>6. ASSUME \A i \in 1 .. Len(todo') : todo'[i][1] # n
          PROVE  Above(Out', disk'[n], n)
      <3>1. \A j \in 2 .. Len(todo) : todo[j][1] # n
        <4> SUFFICES ASSUME NEW j \in 2 .. Len(todo) PROVE todo[j][1] # n
          OBVIOUS
        <4>1. j - 1 \in 1 .. Len(todo') /\ todo'[j - 1] = todo[j]
          BY <1>1
        <4> QED
          BY <2>6, <4>1
      <3>2. CASE todo[1][1] = n
        <4>1. LastTo(1, n) /\ 1 \in 1 .. Len(todo)
          BY <1>1, <3>1, <3>2 DEF LastTo
        <4>2. Above(Out, todo[1][2], n) /\ disk'[n] = todo[1][2]
          BY <1>1, <1>3, <2>1, <3>2, <4>1
        <4> QED
          BY <1>1, <2>4, <4>2 DEF Above
      <3>3. CASE todo[1][1] # n
        <4>1. \A i \in 1 .. Len(todo) : todo[i][1] # n
          BY <1>1, <3>1, <3>3
        <4>2. Above(Out, disk[n], n) /\ disk'[n] = disk[n]
          BY <1>1, <1>3, <2>1, <3>3, <4>1
        <4> QED
          BY <1>1, <2>4, <4>2 DEF Above
      <3> QED
        BY <3>2, <3>3
    <2>7. ASSUME NEW i \in 1 .. Len(todo'), LastTo(i, n)'
          PROVE  Above(Out', todo'[i][2], n)
      <3>1. i + 1 \in 1 .. Len(todo) /\ todo'[i] = todo[i + 1]
        BY <1>1
      <3>2. \A j \in i + 1 + 1 .. Len(todo) : todo[j][1] # n
        <4> SUFFICES ASSUME NEW j \in i + 1 + 1 .. Len(todo) PROVE todo[j][1] # n
          OBVIOUS
        <4>1. j - 1 \in i + 1 .. Len(todo') /\ todo'[j - 1] = todo[j]
          BY <1>1
        <4> QED
          BY <1>1, <2>7, <4>1 DEF LastTo
      <3>3. LastTo(i + 1, n)
        BY <1>1, <2>7, <3>1, <3>2 DEF LastTo
      <3>4. Above(Out, todo[i + 1][2], n)
        BY <2>1, <3>1, <3>3
      <3> QED
        BY <1>1, <2>4, <3>1, <3>4 DEF Above
    <2> QED
      BY <1>1, <1>4, <2>5, <2>6, <2>7 DEF NoRepeat
  <1> QED
    BY <1>5, <1>6

(* new_bloc hands out the bloc below the header it moves up, or the one     *)
(* behind a header of a single bloc.                                       *)
LEMMA RepeatTake ==
    ASSUME TypeOK, AllContentOK, BlocZero, NoRepeat, Take, ~cut'
    PROVE  NoRepeat'
  <1> USE Kinds
  <1> DEFINE n == super.first_free
             head == disk[n]
  <1>1. /\ super \in Supers /\ Len(todo) = 0 /\ super # NoSuper /\ super.kind = "super"
        /\ disk' = disk /\ given' = given /\ ~cut
    BY TakeEffect DEF Take
  <1>2. n \in Bloc /\ super.root = 0 /\ super.nb_free_blc \in Nat
    BY <1>1 DEF Supers
  <1>3. Above(Out, head, n) /\ \A b : ~Hands(b)
    BY <1>1, BetweenCalls DEF Current
  <1>4. CASE super.nb_free_blc = 0
    <2>1. super' = super /\ todo' = Log1(0, Used)
      BY <1>4, TakeFull
    <2>2. Len(todo') = 1 /\ todo'[1][1] = 0 /\ todo'[1][2] = Used
      BY <2>1, Entries1
    <2>3. \A b \in Bloc \ {0} : ~Hands(b)'
      BY <2>2 DEF Hands
    <2>4. Current' = super
      BY <1>1, <2>1 DEF Current
    <2>5. Above(Out', head, n)
      BY <1>1, <1>3, <2>1, <2>3 DEF Above, Out
    <2>6. Above(Out', Used, n)
      BY DEF Above
    <2>7. \A i \in 1 .. Len(todo') : todo'[i][2] = Used
      BY <2>2
    <2> HIDE DEF n, head
    <2> QED
      BY <1>1, <2>1, <2>3, <2>4, <2>5, <2>6, <2>7 DEF NoRepeat, n, head
  <1>5. CASE super.nb_free_blc # 0 /\ head.nb_free_blocs = 1
    <2> DEFINE next == head.next
    <2>1. /\ head.kind = "free"
          /\ super' = Super(0, super.nb_free_blc - 1, next)
          /\ todo' = Log2(0, super', next, Used)
      BY <1>2, <1>5, TakeBloc
    <2>2. /\ Len(todo') = 2 /\ todo'[1][1] = 0 /\ todo'[1][2] = super'
          /\ todo'[2][1] = next /\ todo'[2][2] = Used
      BY <2>1, Entries2
    <2>3. \A b \in Bloc \ {0} : b \notin given
      BY <1>3, <1>5, <2>1 DEF Above, Out
    <2>4. super'.first_free = next /\ super'.kind = "super" /\ super' # NoSuper
      BY <2>1 DEF Super, NoSuper
    <2>5. Current' = super'
      BY <2>4 DEF Current
    <2>6. Above(Out', Used, next) /\ Above(Out', super', next)
      BY <2>4 DEF Above
    <2>7. \A i \in 1 .. Len(todo') : todo'[i][2] = super' \/ todo'[i][2] = Used
      BY <2>2
    <2>8. ~ \A i \in 1 .. Len(todo') : todo'[i][1] # next
      BY <2>2
    <2> HIDE DEF next
    <2>9. \A i \in 1 .. Len(todo') : Above(Out', todo'[i][2], next)
      BY <2>6, <2>7 DEF Above
    <2> QED
      BY <1>1, <2>3, <2>4, <2>5, <2>8, <2>9 DEF NoRepeat
  <1>6. CASE super.nb_free_blc # 0 /\ head.nb_free_blocs # 1
    <2>1. /\ head.kind = "free"
          /\ super' = Super(0, super.nb_free_blc - 1, n + 1)
          /\ todo' = Log3(0, super', n + 1, head, n, Used)
      BY <1>2, <1>6, TakeBloc
    <2>2. /\ Len(todo') = 3 /\ todo'[1][1] = 0 /\ todo'[1][2] = super'
          /\ todo'[2][1] = n + 1 /\ todo'[2][2] = head
          /\ todo'[3][1] = n /\ todo'[3][2] = Used
      BY <2>1, Entries3
    <2>3. \A b \in Bloc \ {0} : b \in given => b < n
      BY <1>3, <2>1 DEF Above, Out
    <2>4. super'.first_free = n + 1 /\ super'.kind = "super" /\ super' # NoSuper
      BY <2>1 DEF Super, NoSuper
    <2>5. Current' = super'
      BY <2>4 DEF Current
    <2>6. n \in Nat
      BY <1>2 DEF Bloc
    <2>7. \A b : Hands(b)' => b = n
      BY <2>2 DEF Hands
    <2>8. \A b \in Out' : b < n + 1
      <3> SUFFICES ASSUME NEW b \in Out' PROVE b < n + 1
        OBVIOUS
      <3>1. b \in Nat /\ b \in Bloc \ {0}
        BY DEF Bloc, Out
      <3>2. b \in given \/ b = n
        BY <1>1, <2>7 DEF Out
      <3> QED
        BY <2>3, <2>6, <3>1, <3>2
    <2>9. \A b \in Bloc \ {0} : Hands(b)' => b \notin given'
      BY <1>1, <2>3, <2>6, <2>7
    <2> DEFINE next == n + 1
    <2>10. Above(Out', super', next) /\ Above(Out', head, next) /\ Above(Out', Used, next)
      BY <1>1, <1>6, <2>4, <2>8 DEF Above
    <2>11. \A i \in 1 .. Len(todo') :
              todo'[i][2] = super' \/ todo'[i][2] = head \/ todo'[i][2] = Used
      BY <2>2
    <2>12. ~ \A i \in 1 .. Len(todo') : todo'[i][1] # next
      BY <2>2
    <2> HIDE DEF next, head
    <2>13. \A i \in 1 .. Len(todo') : Above(Out', todo'[i][2], next)
      BY <1>1, <2>10, <2>11 DEF Above, head
    <2>14. super'.first_free = next
      BY <2>4 DEF next
    <2> QED
      BY <1>1, <2>5, <2>9, <2>12, <2>13, <2>14 DEF NoRepeat
  <1> QED
    BY <1>4, <1>5, <1>6

(* Every action keeps what is out below a run, or the list ended.          *)
LEMMA RepeatStep ==
    ASSUME IInv, NoRepeat, [Next]_vars
    PROVE  NoRepeat'
  <1> USE DEF IInv
  <1> SUFFICES ASSUME ~cut' PROVE NoRepeat'
    BY DEF NoRepeat
  <1>1. CASE Mount
    <2>1. /\ super = NoSuper /\ todo' = todo /\ disk' = disk /\ given' = given
          /\ ~cut /\ super' = disk[0] /\ disk[0].kind = "super"
      BY <1>1, MountLoads DEF Mount
    <2>2. Len(todo) = 0
      BY <2>1 DEF Saving
    <2>3. Current = disk[0] /\ Current' = disk[0]
      BY <2>1 DEF Current
    <2>4. Above(Out, disk[Current.first_free], Current.first_free)
      BY <2>1, <2>2, <2>3, BetweenCalls
    <2> QED
      BY <2>1, <2>2, <2>3, <2>4 DEF NoRepeat, Above, Out, Hands
  <1>2. CASE Format
    <2>1. todo' = Log2(0, super', 1, RunHeader) /\ given' = {}
      <3>1. todo' = Log2(0, super', 1, RunHeader)
        BY <1>2, FormatEffect
      <3>2. given' = {}
        BY <1>2 DEF Format
      <3> QED
        BY <3>1, <3>2
    <2>2. Len(todo') = 2 /\ todo'[2][2] = RunHeader
      BY <2>1, Entries2
    <2>3. \A b \in Bloc \ {0} : ~Hands(b)'
      BY <2>2 DEF Hands, RunHeader, FreeBlc, Used
    <2> QED
      BY <2>1, <2>3 DEF NoRepeat, Above, Out
  <1>3. CASE Take
    BY <1>3, RepeatTake
  <1>4. CASE TakeStopped
    <2>1. /\ super' = NoSuper /\ disk' = disk /\ given' = given /\ todo' = todo
          /\ todo = << >> /\ super # NoSuper /\ ~cut
      BY <1>4 DEF TakeStopped, Idle
    <2>2. Len(todo) = 0
      BY <2>1, Empty
    <2>3. disk[0].kind = "super" => disk[0] = super
      BY <2>1, <2>2 DEF Saving, Zeroed, Used
    <2> QED
      BY <2>1, <2>2, <2>3 DEF NoRepeat, Current, Above, Out, Hands
  <1>5. ASSUME NEW f \in Files, NEW b \in Bloc, GiveBack(f, b)
        PROVE  NoRepeat'
    <2>1. /\ todo' = Log3(0, super', b, Zero, b, FreeBlc(1, super.first_free))
          /\ given' = {}
      <3>1. todo' = Log3(0, super', b, Zero, b, FreeBlc(1, super.first_free))
        BY <1>5, GiveBackEffect
      <3>2. given' = {}
        BY <1>5 DEF GiveBack
      <3> QED
        BY <3>1, <3>2
    <2>2. Len(todo') = 3 /\ todo'[3][2] = FreeBlc(1, super.first_free)
      BY <2>1, Entries3
    <2>3. \A d \in Bloc \ {0} : ~Hands(d)'
      BY <2>2 DEF Hands, FreeBlc, Used
    <2> QED
      BY <2>1, <2>3 DEF NoRepeat, Above, Out
  <1>6. CASE WriteSector
    BY <1>6, RepeatWrite
  <1>7. CASE Exit
    <2>1. /\ super' = NoSuper /\ disk' = disk /\ given' = given /\ super # NoSuper
          /\ todo' = << >> /\ cut' = IF todo = << >> THEN cut ELSE TRUE
      BY <1>7 DEF Exit
    <2>2. todo = << >> /\ cut' = cut
      <3>1. todo = << >>
        BY <2>1
      <3> QED
        BY <2>1, <3>1
    <2>3. Len(todo) = 0 /\ todo' = todo
      BY <2>1, <2>2, Empty
    <2>4. disk[0].kind = "super" => disk[0] = super
      BY <2>1, <2>3 DEF Saving, Zeroed, Used
    <2> QED
      BY <2>1, <2>2, <2>3, <2>4 DEF NoRepeat, Current, Above, Out, Hands
  <1>8. CASE UNCHANGED vars
    BY <1>8 DEF vars, NoRepeat, Current, Above, Out, Hands, LastTo
  <1> QED
    BY <1>1, <1>2, <1>3, <1>4, <1>5, <1>6, <1>7, <1>8 DEF Next

(***************************************************************************)
(* Whatever was freed, new_bloc never hands out the same bloc twice between *)
(* two calls of free_bloc, unless a call was cut short: on a volume of any  *)
(* size the magic of the head of the list stops the program first.          *)
(***************************************************************************)
THEOREM NeverTwice == Spec => []NeverTwiceBetweenFrees
  <1>1. Init => NoRepeat
    <2> SUFFICES ASSUME Init PROVE NoRepeat
      OBVIOUS
    <2>1. TypeOK /\ todo = << >> /\ given = {}
      BY InitInvariant DEF Init, IInv
    <2>2. Len(todo) = 0
      BY <2>1, Empty
    <2> QED
      BY <2>1, <2>2, NoneOut DEF Hands
  <1>2. IInv /\ NoRepeat /\ [Next]_vars => NoRepeat'
    BY RepeatStep
  <1>3. IInv /\ NoRepeat => NeverTwiceBetweenFrees
    <2> SUFFICES ASSUME IInv, NoRepeat, ~cut, NEW b \in Bloc \ {NULL_BLOC}, Handed(b)
                 PROVE  b \notin given
      BY DEF NeverTwiceBetweenFrees
    <2>1. todo # << >> /\ todo[Len(todo)] = <<b, Used>>
      BY DEF Handed
    <2>2. Len(todo) > 0
      <3>1. Len(todo) \in Nat
        BY LenProperties DEF IInv, TypeOK
      <3> QED
        BY <2>1, <3>1, Empty DEF IInv
    <2>3. Hands(b)
      BY <2>1, <2>2 DEF Hands
    <2>4. super # NoSuper /\ super \in Supers
      BY <2>2 DEF IInv, Saving, TypeOK
    <2>5. Current.kind = "super"
      BY <2>4 DEF Current, Supers
    <2> QED
      BY <2>3, <2>5 DEF NoRepeat
  <1> QED
    BY <1>1, <1>2, <1>3, Invariance, PTL DEF Spec
=============================================================================
