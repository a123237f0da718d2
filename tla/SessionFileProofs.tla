------------------------- MODULE SessionFileProofs -------------------------
(***************************************************************************)
(* Proofs of the safety properties of SessionFile, for any finite sets of  *)
(* requests and logins, whichever of them are tried again.                 *)
(*                                                                         *)
(* The argument follows a session from the hands of one request to those   *)
(* of the next.  Only the head of the queue has a session in its hands     *)
(* (QueueOK).  A login's session is written once, and nobody stems from it *)
(* before it was the session file (LoginOK, TmpOK).  So what is in the     *)
(* file or on its way there has the cookies of every request that was      *)
(* stored from the same login (JarsOK).                                    *)
(***************************************************************************)
EXTENDS SessionFile, TLAPS, FiniteSetTheorems, SequenceTheorems

Saves   == {"open", "write", "rename", "chmod"}
Holds(r) == pc[r] \in {"fetching", "removing"} \cup Saves
Writing(w) == pc[w] \in {"write", "rename", "chmod"}

\* Only the first of the queue is past loading.
QueueOK == \A r \in Request : Holds(r) => queue # <<>> /\ Head(queue) = r

\* What a request is saving, and how often it was tried.
TriesOK ==
    \A r \in Request :
        /\ saving[r] # "login"
        /\ pc[r] \in {"new", "queued"} => tries[r] = 0 /\ saving[r] = "jar"
        /\ pc[r] = "fetching" => tries[r] < 2
        /\ pc[r] \in Saves /\ saving[r] = "migration" => tries[r] = 0
        /\ pc[r] \in Saves /\ saving[r] = "jar" => r \in mem[r].seen

\* Writers have their inode open between opening and renaming.
FileOK ==
    /\ \A w \in Writer : fd[w] # 0 <=> pc[w] \in {"write", "rename"}
    /\ tmp # 0 => tmp # target

\* A login has its own session in its hands, and before it writes it nobody has it.
LoginOK ==
    \A l \in Login :
        /\ pc[l] \in {"new", "done"} \cup Saves
        /\ saving[l] = "login" /\ mem[l] = Fresh(l)
        /\ pc[l] \in {"new", "open", "write"} =>
              /\ \A i \in Inode : data[i].by # l
              /\ \A r \in Request : mem[r].by # l

\* The session of l is in the temporary file and nowhere else.
OnlyThere(l) ==
    /\ data[tmp] = Fresh(l)
    /\ \A i \in Inode \ {tmp} : data[i].by # l
    /\ \A r \in Request : mem[r].by # l

\* What the temporary file holds.
TmpOK ==
    tmp # 0 =>
        \/ data[tmp] \in {Empty, Mixed}
        \/ \E r \in Request : pc[r] = "rename" /\ data[tmp] = mem[r]
        \/ \E l \in Login : OnlyThere(l)

\* A session has the cookies of all requests stored from the same login.
Covers(x) == x.by # Old => {r \in stored : mem[r].by = x.by} \subseteq x.seen

JarsOK ==
    /\ \A r \in stored : pc[r] = "done"
    /\ \A r \in Request : Holds(r) => Covers(mem[r])
    /\ target # 0 => Covers(data[target])
    /\ \A r \in Request :
          pc[r] = "chmod" /\ saving[r] = "jar" /\ target # 0 /\
          data[target].by = mem[r].by /\ mem[r].by # Old => r \in data[target].seen

\* While no two saves overlap the temporary file belongs to the one under way.
WholeOK ==
    ~overlap =>
        /\ \A v, w \in Writer : Writing(v) /\ Writing(w) => v = w
        /\ \A w \in Writer : pc[w] = "write" => tmp = fd[w] /\ data[tmp] = Empty
        /\ \A w \in Writer : pc[w] = "rename" => tmp = fd[w] /\ data[tmp] \in Jar
        /\ tmp # 0 => \E w \in Writer : pc[w] \in {"write", "rename"}
        /\ target # 0 => data[target] \in Jar

FInv == TypeOK /\ QueueOK /\ TriesOK /\ FileOK /\ LoginOK /\ TmpOK /\ JarsOK /\ WholeOK
-----------------------------------------------------------------------------
\* What tells sessions apart.
LEMMA Sessions ==
  /\ \A x \in Jar : x \notin {Empty, Mixed} /\ x.by \notin {Empty.by, Mixed.by} /\ x.seen \subseteq Request
  /\ \A l \in Login \cup {First, Old} : Fresh(l) \in Jar
  /\ \A l : Fresh(l).by = l /\ Fresh(l).seen = {}
  /\ \A l \in Login : l \notin {First, Old, Empty.by, Mixed.by}
  /\ Old \notin {First, Empty.by, Mixed.by} /\ Empty # Mixed /\ Empty.by # Mixed.by
<1>1. \A l : Fresh(l).by = l /\ Fresh(l).seen = {}
  BY DEF Fresh
<1>2. Empty.by = "empty" /\ Mixed.by = "mixed"
  BY DEF Fresh, Empty, Mixed
<1>3. \A x \in Jar : x.by \in Login \cup {First, Old} /\ x.seen \subseteq Request
  BY DEF Jar
<1>4. \A l \in Login : l \notin {First, Old, Empty.by, Mixed.by}
  BY WriterAssumption
<1>5. Old \notin {First, Empty.by, Mixed.by} /\ First \notin {Empty.by, Mixed.by} /\ Empty.by # Mixed.by
  BY <1>2 DEF First, Old
<1>6. \A l \in Login \cup {First, Old} : Fresh(l) \in Jar
  BY DEF Fresh, Jar
<1>7. \A x \in Jar : x.by \notin {Empty.by, Mixed.by}
  BY <1>3, <1>4, <1>5
<1>8. \A x \in Jar : x \notin {Empty, Mixed}
  BY <1>7
<1>9. \A x \in Jar : x \notin {Empty, Mixed} /\ x.by \notin {Empty.by, Mixed.by} /\ x.seen \subseteq Request
  BY <1>3, <1>7, <1>8
<1>10. Old \notin {First, Empty.by, Mixed.by} /\ Empty # Mixed /\ Empty.by # Mixed.by
  BY <1>5
<1> QED BY ONLY <1>1, <1>4, <1>6, <1>9, <1>10

\* There is always an inode for a new temporary file.
LEMMA UnusedExists ==
  ASSUME TypeOK, FileOK, NEW w \in Writer, pc[w] = "open", tmp = 0
  PROVE  (CHOOSE j \in Unused : TRUE) \in Unused /\ Unused \subseteq Inode
<1> DEFINE F == {fd[v] : v \in Writer}
           N == Cardinality(Writer)
<1>1. IsFiniteSet(Writer) /\ N \in Nat
  BY WriterAssumption, FS_CardinalityType DEF Writer
<1>2. fd \in Surjection(Writer, F)
  BY DEF TypeOK, Surjection
<1>3. IsFiniteSet(F) /\ Cardinality(F) <= N /\ Cardinality(F) \in Nat
  BY <1>1, <1>2, FS_Surjection, FS_CardinalityType
<1>4. IsFiniteSet(F \cup {target}) /\ Cardinality(F \cup {target}) <= N + 1
  <2>1. CASE target \in F
    <3>1. F \cup {target} = F
      BY <2>1
    <3> HIDE DEF F, N
    <3> QED BY <1>1, <1>3, <3>1
  <2>2. CASE target \notin F
    <3> HIDE DEF F, N
    <3>1. IsFiniteSet(F \cup {target}) /\ Cardinality(F \cup {target}) = Cardinality(F) + 1
      BY <1>3, <2>2, FS_AddElement
    <3> QED BY <1>1, <1>3, <3>1
  <2> QED BY <2>1, <2>2
<1>5. IsFiniteSet(Inode) /\ Cardinality(Inode) = N + 2
  <2>1. IsFiniteSet(1 .. N + 2) /\ Cardinality(1 .. N + 2) = N + 2
    BY <1>1, FS_Interval
  <2> QED BY <2>1 DEF Inode
<1>6. ~ (Inode \subseteq F \cup {target})
  BY <1>1, <1>3, <1>4, <1>5, FS_Subset, FS_CardinalityType
<1>7. 0 \notin Inode
  BY <1>1 DEF Inode
<1> QED BY <1>6, <1>7 DEF Unused

\* The queue goes on when its head moves or ends, and does not mind logins.
LEMMA QueueStep ==
  ASSUME TypeOK, QueueOK, NEW w \in Writer, NEW x \in Step, Goto(w, x),
         w \in Request => queue # <<>> /\ Head(queue) = w,
         queue' = queue \/ (w \in Request /\ x = "done" /\ queue' = Tail(queue))
  PROVE  QueueOK' /\ queue' \in Seq(Request) /\ pc' \in [Writer -> Step]
<1>1. pc' = [pc EXCEPT ![w] = x] /\ pc' \in [Writer -> Step]
  BY DEF Goto, TypeOK
<1>2. queue' \in Seq(Request)
  BY HeadTailProperties DEF TypeOK
<1>3. ASSUME NEW r \in Request, Holds(r)' PROVE queue' # <<>> /\ Head(queue') = r
  <2>1. r \in Writer
    BY DEF Writer
  <2>2. CASE r = w
    <3>1. x # "done"
      BY <1>1, <1>3, <2>2 DEF Holds, Saves, TypeOK
    <3> QED BY <2>2, <3>1
  <2>3. CASE r # w
    <3>1. pc'[r] = pc[r]
      BY <1>1, <2>1, <2>3 DEF TypeOK
    <3>2. Holds(r)
      BY <1>3, <3>1 DEF Holds
    <3>3. queue # <<>> /\ Head(queue) = r
      BY <3>2 DEF QueueOK
    <3> QED BY <2>3, <3>3
  <2> QED BY <2>2, <2>3
<1> QED BY <1>1, <1>2, <1>3 DEF QueueOK
-----------------------------------------------------------------------------
\* What a step may do that touches no file but, perhaps, removes the session file.
Outside(w) ==
    /\ UNCHANGED <<tmp, data, fd, stored, overlap>>
    /\ target' \in {target, 0}
    /\ \E x \in Step : Goto(w, x) /\ ~Writing(w) /\ x \notin {"write", "rename", "chmod"}
    /\ mem' \in [Writer -> Jar] /\ saving' \in [Writer -> {"jar", "login", "migration"}]
    /\ \A v \in Writer \ {w} : mem'[v] = mem[v] /\ saving'[v] = saving[v]

\* Such a step of a login, which begins to save.
LoginStep(w) ==
    w \in Login /\ pc[w] = "new" /\ pc'[w] = "open" /\ mem'[w] = mem[w] /\ saving'[w] = saving[w]

\* Such a step of a request, which may take a session into its hands.
RequestStep(w) ==
    /\ w \in Request /\ pc[w] # "done"
    /\ \/ mem'[w].by = mem[w].by
       \/ mem'[w].by = Old
       \/ target # 0 /\ mem'[w].by = data[target].by
    /\ Holds(w)' => Covers(mem'[w])

\* Steps outside the files keep what is said of the files and of the sessions.
LEMMA OutsideStep ==
  ASSUME FInv, NEW w \in Writer, Outside(w), LoginStep(w) \/ RequestStep(w)
  PROVE  FileOK' /\ LoginOK' /\ TmpOK' /\ JarsOK' /\ WholeOK'
<1> USE DEF FInv
<1>1. PICK x \in Step : Goto(w, x) /\ ~Writing(w) /\ x \notin {"write", "rename", "chmod"}
  BY DEF Outside
<1>2. /\ pc \in [Writer -> Step] /\ pc' = [pc EXCEPT ![w] = x] /\ pc'[w] = x
      /\ pc' \in [Writer -> Step] /\ \A v \in Writer \ {w} : pc'[v] = pc[v]
      /\ pc[w] \notin {"write", "rename", "chmod"} /\ x \notin {"write", "rename", "chmod"}
  BY <1>1 DEF Goto, TypeOK, Writing
<1>3. /\ tmp' = tmp /\ data' = data /\ fd' = fd /\ stored' = stored /\ overlap' = overlap
      /\ target' \in {target, 0} /\ mem' \in [Writer -> Jar]
      /\ \A v \in Writer \ {w} : mem'[v] = mem[v] /\ saving'[v] = saving[v]
  BY DEF Outside
<1>4. \A v \in Writer : \A step \in {"write", "rename", "chmod"} : pc'[v] = step <=> pc[v] = step
  BY <1>2
<1>5. FileOK'
  BY <1>3, <1>4 DEF FileOK
<1>6. WholeOK'
  <2>1. \A v \in Writer : Writing(v)' <=> Writing(v)
    BY <1>4 DEF Writing
  <2> QED BY <1>3, <1>4, <2>1 DEF WholeOK
<1>7. \A l \in Login : l \in Writer
  BY DEF Writer
<1>8. \A r \in Request : r \in Writer /\ r \notin Login
  BY WriterAssumption DEF Writer
<1>9. ASSUME NEW l, l # Old, target # 0 => data[target].by # l,
             \A r \in Request : mem[r].by # l
      PROVE  \A r \in Request : mem'[r].by # l
  BY <1>3, <1>8, <1>9, WriterAssumption DEF LoginStep, RequestStep
<1>10. LoginOK'
  <2> SUFFICES ASSUME NEW l \in Login
               PROVE  /\ pc'[l] \in {"new", "done"} \cup Saves
                      /\ saving'[l] = "login" /\ mem'[l] = Fresh(l)
                      /\ pc'[l] \in {"new", "open", "write"} =>
                            /\ \A i \in Inode : data'[i].by # l
                            /\ \A r \in Request : mem'[r].by # l
    BY DEF LoginOK
  <2>1. /\ pc[l] \in {"new", "done"} \cup Saves /\ saving[l] = "login" /\ mem[l] = Fresh(l)
        /\ pc[l] \in {"new", "open", "write"} =>
              (\A i \in Inode : data[i].by # l) /\ (\A r \in Request : mem[r].by # l)
    BY DEF LoginOK
  <2>2. w = l => LoginStep(w)
    BY <1>8 DEF RequestStep
  <2>3. /\ pc'[l] \in {"new", "done"} \cup Saves
        /\ saving'[l] = "login" /\ mem'[l] = Fresh(l)
        /\ pc'[l] \in {"new", "open", "write"} => pc[l] \in {"new", "open", "write"}
    BY <1>2, <1>3, <1>7, <2>1, <2>2 DEF LoginStep, Saves
  <2>4. l # Old /\ (target # 0 => target \in Inode)
    BY Sessions DEF TypeOK
  <2> QED BY <1>3, <1>9, <2>1, <2>3, <2>4
<1>11. TmpOK'
  <2> SUFFICES ASSUME tmp # 0 PROVE TmpOK'
    BY <1>3 DEF TmpOK
  <2>1. CASE data[tmp] \in {Empty, Mixed}
    BY <1>3, <2>1 DEF TmpOK
  <2>2. ASSUME NEW r \in Request, pc[r] = "rename", data[tmp] = mem[r] PROVE TmpOK'
    <3>1. r # w /\ r \in Writer
      BY <1>2, <1>8, <2>2
    <3>2. pc'[r] = "rename" /\ data'[tmp'] = mem'[r]
      BY <1>2, <1>3, <2>2, <3>1
    <3> QED BY <3>2 DEF TmpOK
  <2>3. ASSUME NEW l \in Login, OnlyThere(l) PROVE TmpOK'
    <3>1. target # 0 => target \in Inode \ {tmp}
      BY DEF TypeOK, FileOK
    <3>2. \A r \in Request : mem'[r].by # l
      BY <1>9, <2>3, <3>1, Sessions DEF OnlyThere
    <3>3. OnlyThere(l)'
      BY <1>3, <2>3, <3>2 DEF OnlyThere
    <3> QED BY <3>3 DEF TmpOK
  <2> QED BY <2>1, <2>2, <2>3 DEF TmpOK
<1>12. w \notin stored
  <2>1. CASE w \in Login
    BY <2>1, <1>8 DEF TypeOK
  <2>2. CASE w \notin Login
    BY <2>2 DEF RequestStep, LoginStep, JarsOK
  <2> QED BY <2>1, <2>2
<1>13. \A q \in stored : q \in Request /\ mem'[q] = mem[q] /\ pc'[q] = pc[q]
  BY <1>2, <1>3, <1>8, <1>12 DEF TypeOK
<1>14. \A y : Covers(y)' <=> Covers(y)
  BY <1>3, <1>13 DEF Covers
<1>15. JarsOK'
  <2>1. \A r \in stored' : pc'[r] = "done"
    BY <1>3, <1>13 DEF JarsOK
  <2>2. ASSUME NEW r \in Request, Holds(r)' PROVE Covers(mem[r])'
    <3>1. CASE r = w
      BY <1>8, <1>14, <2>2, <3>1 DEF LoginStep, RequestStep
    <3>2. CASE r # w
      BY <1>2, <1>3, <1>8, <1>14, <2>2, <3>2 DEF JarsOK, Holds
    <3> QED BY <3>1, <3>2
  <2>3. target' # 0 => Covers(data[target])'
    BY <1>3, <1>14 DEF JarsOK
  <2>4. ASSUME NEW r \in Request, pc'[r] = "chmod", saving'[r] = "jar", target' # 0,
               data'[target'].by = mem'[r].by, mem'[r].by # Old
        PROVE  r \in data'[target'].seen
    <3>1. r # w /\ r \in Writer
      BY <1>2, <1>8, <2>4
    <3> QED BY <1>2, <1>3, <2>4, <3>1 DEF JarsOK
  <2> QED BY <2>1, <2>2, <2>3, <2>4 DEF JarsOK
<1> QED BY <1>5, <1>6, <1>10, <1>11, <1>15
\* The types after such a step.
LEMMA OutsideTypes ==
  ASSUME TypeOK, NEW w \in Writer, Outside(w),
         queue' \in Seq(Request), pc' \in [Writer -> Step], tries' \in [Request -> 0 .. 2]
  PROVE  TypeOK'
<1>1. target' \in Inode \cup {0} /\ stored' \subseteq Request
  BY DEF Outside, TypeOK
<1> QED BY <1>1 DEF Outside, TypeOK

\* A request joins the queue.
LEMMA IssueStep ==
  ASSUME FInv, NEW r \in Request, Issue(r)
  PROVE  FInv'
<1> USE DEF FInv
<1>1. /\ pc[r] = "new" /\ Goto(r, "queued") /\ queue' = Append(queue, r)
      /\ UNCHANGED <<saving, mem, tries, target, tmp, data, fd, stored, overlap>>
  BY DEF Issue, files, history
<1>2. r \in Writer
  BY DEF Writer
<1>3. /\ pc' = [pc EXCEPT ![r] = "queued"] /\ pc' \in [Writer -> Step]
      /\ \A v \in Request \ {r} : pc'[v] = pc[v]
  BY <1>1, <1>2 DEF Goto, TypeOK, Step, Writer
<1>4. Outside(r)
  BY <1>1 DEF Outside, TypeOK, Writing, Step
<1>5. ~Holds(r) /\ ~Holds(r)' /\ pc'[r] = "queued"
  BY <1>1, <1>2, <1>3 DEF Holds, Saves, TypeOK
<1>6. RequestStep(r)
  BY <1>1, <1>5 DEF RequestStep
<1>7. /\ queue' \in Seq(Request) /\ queue' # <<>>
      /\ queue # <<>> => Head(queue') = Head(queue)
  BY <1>1, AppendProperties DEF TypeOK
<1>8. QueueOK'
  BY <1>3, <1>5, <1>7 DEF QueueOK, Holds
<1>9. TriesOK'
  BY <1>1, <1>3, <1>5 DEF TriesOK, Saves
<1>10. TypeOK'
  BY <1>1, <1>2, <1>3, <1>4, <1>7, OutsideTypes DEF TypeOK
<1> QED BY <1>2, <1>4, <1>6, <1>8, <1>9, <1>10, OutsideStep

\* A login starts to save.
LEMMA LoggedInStep ==
  ASSUME FInv, NEW l \in Login, LoggedIn(l)
  PROVE  FInv'
<1> USE DEF FInv
<1>1. /\ pc[l] = "new" /\ Goto(l, "open")
      /\ UNCHANGED <<queue, saving, mem, tries, target, tmp, data, fd, stored, overlap>>
  BY DEF LoggedIn, files
<1>2. l \in Writer /\ l \notin Request /\ "open" \in Step
  BY WriterAssumption DEF Writer, Step
<1>3. /\ pc' = [pc EXCEPT ![l] = "open"] /\ pc'[l] = "open"
      /\ \A v \in Request : pc'[v] = pc[v]
  BY <1>1, <1>2 DEF Goto, TypeOK, Writer
<1>4. QueueOK' /\ queue' \in Seq(Request) /\ pc' \in [Writer -> Step]
  BY <1>1, <1>2, QueueStep
<1>5. Outside(l)
  BY <1>1, <1>2 DEF Outside, TypeOK, Writing
<1>6. LoginStep(l)
  BY <1>1, <1>3 DEF LoginStep
<1>7. TriesOK'
  BY <1>1, <1>3 DEF TriesOK
<1>8. TypeOK'
  BY <1>1, <1>2, <1>4, <1>5, OutsideTypes DEF TypeOK
<1> QED BY <1>2, <1>4, <1>5, <1>6, <1>7, <1>8, OutsideStep

\* A logout removes the session file.
LEMMA LogoutStep ==
  ASSUME FInv, Logout
  PROVE  FInv'
<1> USE DEF FInv
<1>1. target' = 0 /\ UNCHANGED <<queue, pc, saving, mem, tries, tmp, data, fd, stored, overlap>>
  BY DEF Logout
<1>2. TypeOK'
  BY <1>1 DEF TypeOK
<1>3. QueueOK' /\ TriesOK'
  BY <1>1 DEF QueueOK, TriesOK, Holds
<1>4. FileOK' /\ LoginOK' /\ TmpOK'
  BY <1>1 DEF FileOK, LoginOK, TmpOK, OnlyThere
<1>5. JarsOK'
  BY <1>1 DEF JarsOK, Covers, Holds
<1>6. WholeOK'
  BY <1>1 DEF WholeOK, Writing
<1> QED BY <1>2, <1>3, <1>4, <1>5, <1>6

\* A request whose login expired removes the session file and ends.
LEMMA ExpiredStep ==
  ASSUME FInv, NEW r \in Request, Expired(r)
  PROVE  FInv'
<1> USE DEF FInv
<1>1. /\ pc[r] = "removing" /\ Goto(r, "done") /\ queue' = Tail(queue) /\ target' = 0
      /\ UNCHANGED <<saving, mem, tries, tmp, data, fd, stored, overlap>>
  BY DEF Expired, Ends
<1>2. r \in Writer /\ "done" \in Step
  BY DEF Writer, Step
<1>3. /\ pc' = [pc EXCEPT ![r] = "done"] /\ pc'[r] = "done"
      /\ \A v \in Request \ {r} : pc'[v] = pc[v]
  BY <1>1, <1>2 DEF Goto, TypeOK, Writer
<1>4. queue # <<>> /\ Head(queue) = r
  BY <1>1 DEF QueueOK, Holds
<1>5. QueueOK' /\ queue' \in Seq(Request) /\ pc' \in [Writer -> Step]
  BY <1>1, <1>2, <1>4, QueueStep
<1>6. Outside(r)
  BY <1>1, <1>2 DEF Outside, TypeOK, Writing
<1>7. RequestStep(r)
  BY <1>1, <1>3 DEF RequestStep, Holds, Saves
<1>8. TriesOK'
  BY <1>1, <1>3 DEF TriesOK, Saves
<1>9. TypeOK'
  BY <1>1, <1>2, <1>5, <1>6, OutsideTypes DEF TypeOK
<1> QED BY <1>2, <1>5, <1>6, <1>7, <1>8, <1>9, OutsideStep

\* The first of the queue loads the session.
LEMMA LoadStep ==
  ASSUME FInv, NEW r \in Request, Load(r)
  PROVE  FInv'
<1> USE DEF FInv
<1>1. /\ pc[r] = "queued" /\ queue # <<>> /\ Head(queue) = r
      /\ UNCHANGED <<tries, target, tmp, data, fd, stored, overlap>>
  BY DEF Load, Turn, files, history
<1>2. r \in Writer /\ {"done", "fetching", "open"} \subseteq Step /\ tries[r] = 0 /\ saving[r] = "jar"
  BY <1>1 DEF Writer, Step, TriesOK
<1>3. \/ Goto(r, "done") /\ queue' = Tail(queue) /\ UNCHANGED <<mem, saving>>
      \/ /\ Goto(r, "fetching") /\ UNCHANGED <<queue, saving>>
         /\ target # 0 /\ data[target] \in Jar /\ mem' = [mem EXCEPT ![r] = data[target]]
      \/ /\ Goto(r, "open") /\ UNCHANGED queue
         /\ saving' = [saving EXCEPT ![r] = "migration"] /\ mem' = [mem EXCEPT ![r] = Fresh(Old)]
  BY DEF Load, Ends
<1>4. PICK x \in {"done", "fetching", "open"} : Goto(r, x)
  BY <1>3
<1>5. /\ pc' = [pc EXCEPT ![r] = x] /\ pc'[r] = x
      /\ \A v \in Request \ {r} : pc'[v] = pc[v]
  BY <1>2, <1>4 DEF Goto, TypeOK, Writer
<1>6. x = "done" <=> Goto(r, "done")
  BY <1>2, <1>5 DEF Goto, TypeOK
<1>7. QueueOK' /\ queue' \in Seq(Request) /\ pc' \in [Writer -> Step]
  BY <1>1, <1>2, <1>3, <1>4, <1>6, QueueStep
<1>8. Fresh(Old) \in Jar /\ Fresh(Old).by = Old
  BY Sessions
<1>9. /\ mem' \in [Writer -> Jar] /\ saving' \in [Writer -> {"jar", "login", "migration"}]
      /\ \A v \in Writer \ {r} : mem'[v] = mem[v] /\ saving'[v] = saving[v]
  BY <1>2, <1>3, <1>8 DEF TypeOK
<1>10. Outside(r)
  BY <1>1, <1>2, <1>4, <1>9 DEF Outside, Writing
<1>11. RequestStep(r)
  <2>1. \/ x = "done" /\ mem'[r] = mem[r]
        \/ target # 0 /\ mem'[r] = data[target]
        \/ mem'[r] = Fresh(Old)
    BY <1>2, <1>3, <1>5, <1>6 DEF TypeOK
  <2>2. x = "done" => ~Holds(r)'
    BY <1>5 DEF Holds, Saves
  <2>3. target # 0 => Covers(data[target])
    BY DEF JarsOK
  <2>4. Covers(Fresh(Old))
    BY <1>8 DEF Covers
  <2> QED BY <1>1, <1>8, <2>1, <2>2, <2>3, <2>4 DEF RequestStep
<1>12. TriesOK'
  <2>1. /\ saving'[r] # "login"
        /\ x = "open" => saving'[r] = "migration"
    BY <1>2, <1>3, <1>5 DEF Goto, TypeOK
  <2>2. \A v \in Request \ {r} : saving'[v] = saving[v] /\ mem'[v] = mem[v]
    BY <1>9 DEF Writer
  <2> QED BY <1>1, <1>2, <1>4, <1>5, <2>1, <2>2 DEF TriesOK, Saves
<1>13. TypeOK'
  BY <1>1, <1>2, <1>7, <1>10, OutsideTypes DEF TypeOK
<1> QED BY <1>2, <1>7, <1>10, <1>11, <1>12, <1>13, OutsideStep

\* A request is sent, once or twice.
LEMMA FetchStep ==
  ASSUME FInv, NEW r \in Request, Fetch(r)
  PROVE  FInv'
<1> USE DEF FInv
<1>1. /\ pc[r] = "fetching" /\ tries' = [tries EXCEPT ![r] = @ + 1]
      /\ UNCHANGED <<target, tmp, data, fd, stored, overlap>>
  BY DEF Fetch, files, history
<1>2. r \in Writer /\ {"done", "fetching", "open", "removing"} \subseteq Step /\ tries[r] \in 0 .. 1
  BY <1>1 DEF Writer, Step, TriesOK, TypeOK
<1>3. queue # <<>> /\ Head(queue) = r
  BY <1>1 DEF QueueOK, Holds
<1>4. tries' \in [Request -> 0 .. 2] /\ tries'[r] = tries[r] + 1 /\ \A v \in Request \ {r} : tries'[v] = tries[v]
  BY <1>1, <1>2 DEF TypeOK
<1> DEFINE x == pc'[r]
<1>5. \/ /\ Goto(r, "open") /\ UNCHANGED queue
         /\ mem' = [mem EXCEPT ![r].seen = @ \cup {r}] /\ saving' = [saving EXCEPT ![r] = "jar"]
      \/ Goto(r, "removing") /\ UNCHANGED <<queue, mem, saving>>
      \/ Goto(r, "done") /\ queue' = Tail(queue) /\ UNCHANGED <<mem, saving>>
      \/ Goto(r, "fetching") /\ tries'[r] < 2 /\ UNCHANGED <<queue, mem, saving>>
  <2>1. UNCHANGED pc => Goto(r, "fetching")
    BY <1>1, <1>2 DEF Goto, TypeOK
  <2> QED BY <2>1 DEF Fetch, Ends, Again
<1>6. /\ Goto(r, x) /\ x \in {"done", "fetching", "open", "removing"}
      /\ x = "done" <=> Goto(r, "done")
      /\ x = "open" <=> Goto(r, "open")
      /\ x = "fetching" => tries'[r] < 2
  BY <1>2, <1>5 DEF Goto, TypeOK
<1>7. /\ pc' = [pc EXCEPT ![r] = x]
      /\ \A v \in Request \ {r} : pc'[v] = pc[v]
  BY <1>2, <1>6 DEF Goto, TypeOK, Writer
<1>8. QueueOK' /\ queue' \in Seq(Request) /\ pc' \in [Writer -> Step]
  BY <1>2, <1>3, <1>5, <1>6, QueueStep
<1>9. /\ mem[r] \in Jar /\ [mem[r] EXCEPT !.seen = @ \cup {r}] \in Jar
      /\ [mem[r] EXCEPT !.seen = @ \cup {r}].by = mem[r].by
      /\ [mem[r] EXCEPT !.seen = @ \cup {r}].seen = mem[r].seen \cup {r}
  BY <1>2 DEF TypeOK, Jar
<1>10. [mem EXCEPT ![r].seen = @ \cup {r}] = [mem EXCEPT ![r] = [mem[r] EXCEPT !.seen = @ \cup {r}]]
  BY <1>2 DEF TypeOK
<1>11. /\ mem' \in [Writer -> Jar] /\ saving' \in [Writer -> {"jar", "login", "migration"}]
       /\ \A v \in Writer \ {r} : mem'[v] = mem[v] /\ saving'[v] = saving[v]
       /\ mem'[r].by = mem[r].by /\ mem[r].seen \subseteq mem'[r].seen
       /\ x = "open" => saving'[r] = "jar" /\ r \in mem'[r].seen
       /\ x # "open" => saving'[r] = saving[r]
  <2>1. mem \in [Writer -> Jar] /\ saving \in [Writer -> {"jar", "login", "migration"}]
    BY DEF TypeOK
  <2>2. CASE x = "open"
    <3> DEFINE m == [mem[r] EXCEPT !.seen = @ \cup {r}]
    <3>1. m \in Jar /\ m.by = mem[r].by /\ m.seen = mem[r].seen \cup {r}
      BY <1>9
    <3>2. mem' = [mem EXCEPT ![r] = m] /\ saving' = [saving EXCEPT ![r] = "jar"]
      BY <1>2, <1>5, <1>6, <1>10, <2>2 DEF Goto, TypeOK
    <3> HIDE DEF m
    <3> QED BY <1>2, <2>1, <2>2, <3>1, <3>2
  <2>3. CASE x # "open"
    <3>1. UNCHANGED <<mem, saving>>
      BY <1>5, <1>6, <2>3
    <3> QED BY <2>1, <2>3, <3>1
  <2> QED BY <2>2, <2>3
<1>12. Outside(r)
  BY <1>1, <1>2, <1>6, <1>11 DEF Outside, Writing
<1>13. RequestStep(r)
  <2>1. Covers(mem[r])
    BY <1>1 DEF JarsOK, Holds
  <2>2. Covers(mem'[r])
    BY <1>11, <2>1 DEF Covers
  <2> QED BY <1>1, <1>11, <2>2 DEF RequestStep
<1>14. TriesOK'
  <2>1. \A v \in Request \ {r} : saving'[v] = saving[v] /\ mem'[v] = mem[v]
    BY <1>11 DEF Writer
  <2>2. saving'[r] # "login"
    BY <1>11 DEF TriesOK
  <2> HIDE DEF x
  <2>3. /\ x \notin {"new", "queued"}
        /\ x \in Saves => x = "open"
    BY <1>6 DEF Saves
  <2> QED BY <1>4, <1>6, <1>7, <1>11, <2>1, <2>2, <2>3 DEF TriesOK, x
<1>15. TypeOK'
  BY <1>2, <1>4, <1>8, <1>12, OutsideTypes
<1> QED BY <1>2, <1>8, <1>12, <1>13, <1>14, <1>15, OutsideStep
-----------------------------------------------------------------------------
\* A writer that is saving: where it stands, and that requests save one at a time.
LEMMA Saver ==
  ASSUME FInv, NEW w \in Writer, pc[w] \in Saves
  PROVE  /\ w \in Request => queue # <<>> /\ Head(queue) = w /\ Holds(w)
         /\ w \in Request => \A r \in Request \ {w} : ~Holds(r)
         /\ w \in Login \/ w \in Request
         /\ w \in Login => w \notin Request /\ saving[w] = "login" /\ mem[w] = Fresh(w)
         /\ w \in Request => saving[w] # "login"
         /\ w \notin stored /\ mem[w] \in Jar
<1> USE DEF FInv
<1>1. w \in Request => queue # <<>> /\ Head(queue) = w /\ Holds(w)
  BY DEF QueueOK, Holds
<1>2. w \in Request => \A r \in Request \ {w} : ~Holds(r)
  BY <1>1 DEF QueueOK
<1>3. w \notin stored
  BY DEF JarsOK, Saves
<1> QED BY <1>1, <1>2, <1>3, WriterAssumption DEF LoginOK, TriesOK, Writer, TypeOK

\* The temporary file is opened.
LEMMA OpenStep ==
  ASSUME FInv, NEW w \in Writer, Open(w)
  PROVE  FInv'
<1> USE DEF FInv
<1> DEFINE i == IF tmp # 0 THEN tmp ELSE CHOOSE j \in Unused : TRUE
<1>1. /\ pc[w] = "open" /\ Goto(w, "write")
      /\ fd' = [fd EXCEPT ![w] = i] /\ data' = [data EXCEPT ![i] = Empty] /\ tmp' = i
      /\ overlap' = (overlap \/ \E v \in Writer \ {w} : Writing(v))
      /\ UNCHANGED <<queue, saving, mem, tries, target, stored>>
  BY DEF Open, Temporary, Writing
<1>2. /\ i \in Inode /\ i # target /\ i # 0
      /\ tmp = 0 => \A v \in Writer : fd[v] # i
  <2>1. tmp = 0 => i \in Unused /\ Unused \subseteq Inode
    BY <1>1, UnusedExists
  <2>2. tmp # 0 => i = tmp /\ tmp # target /\ tmp \in Inode
    BY DEF TypeOK, FileOK
  <2>3. 0 \notin Inode
    BY DEF Inode
  <2> HIDE DEF i
  <2> QED BY <2>1, <2>2, <2>3 DEF Unused
<1>3. tmp # 0 => i = tmp
  OBVIOUS
<1> HIDE DEF i
<1>4. /\ pc' = [pc EXCEPT ![w] = "write"] /\ pc'[w] = "write" /\ "write" \in Step
      /\ \A v \in Writer \ {w} : pc'[v] = pc[v]
  BY <1>1 DEF Goto, TypeOK, Step
<1>5. /\ fd'[w] = i /\ \A v \in Writer \ {w} : fd'[v] = fd[v]
      /\ data'[i] = Empty /\ \A j \in Inode \ {i} : data'[j] = data[j]
  BY <1>1, <1>2 DEF TypeOK
<1>6. /\ w \in Request => queue # <<>> /\ Head(queue) = w /\ Holds(w)
      /\ \A r \in Request : r \in Writer
      /\ \A l \in Login : l \in Writer
  BY <1>1, Saver DEF Saves, Writer
<1>7. QueueOK' /\ queue' \in Seq(Request) /\ pc' \in [Writer -> Step]
  BY <1>1, <1>4, <1>6, QueueStep
<1>8. TypeOK'
  <2>1. fd' \in [Writer -> Inode \cup {0}] /\ data' \in [Inode -> Jar \cup {Empty, Mixed}]
    BY <1>1, <1>2 DEF TypeOK
  <2>2. overlap' \in BOOLEAN
    BY <1>1 DEF TypeOK
  <2> QED BY <1>1, <1>2, <1>7, <2>1, <2>2 DEF TypeOK
<1>9. TriesOK'
  BY <1>1, <1>4, <1>6 DEF TriesOK, Saves
<1>10. FileOK'
  BY <1>1, <1>2, <1>4, <1>5 DEF FileOK
<1>11. LoginOK'
  <2>1. \A l \in Login : \A j \in Inode : data[j].by # l => data'[j].by # l
    BY <1>5, Sessions
  <2> QED BY <1>1, <1>4, <1>6, <2>1 DEF LoginOK, Saves
<1>12. TmpOK'
  BY <1>1, <1>5 DEF TmpOK
<1>13. JarsOK'
  <2>1. \A y : Covers(y)' <=> Covers(y)
    BY <1>1 DEF Covers
  <2>2. \A r \in Request : (Holds(r)' <=> Holds(r)) /\ (pc'[r] = "chmod" => pc[r] = "chmod")
    BY <1>4, <1>6 DEF Holds, Saves
  <2>3. \A r \in stored : r # w /\ r \in Writer
    BY <1>1, <1>6 DEF JarsOK, TypeOK
  <2>4. target # 0 => data'[target] = data[target]
    BY <1>2, <1>5 DEF TypeOK
  <2> QED BY <1>1, <1>4, <2>1, <2>2, <2>3, <2>4 DEF JarsOK
<1>14. WholeOK'
  <2> SUFFICES ASSUME ~overlap' PROVE WholeOK'
    BY DEF WholeOK
  <2>1. ~overlap /\ \A v \in Writer \ {w} : ~Writing(v)
    BY <1>1 DEF TypeOK
  <2>2. \A v \in Writer \ {w} : pc'[v] \notin {"write", "rename", "chmod"} /\ ~Writing(v)'
    BY <1>4, <2>1 DEF Writing
  <2>3. target # 0 => data'[target] = data[target]
    BY <1>2, <1>5 DEF TypeOK
  <2> QED BY <1>1, <1>4, <1>5, <2>1, <2>2, <2>3 DEF WholeOK
<1> QED BY <1>7, <1>8, <1>9, <1>10, <1>11, <1>12, <1>13, <1>14

\* A session, or parts of two, is written to the inode that was opened.
LEMMA WriteStep ==
  ASSUME FInv, NEW w \in Writer, Write(w)
  PROVE  FInv'
<1> USE DEF FInv
<1> DEFINE i == fd[w]
<1>1. /\ pc[w] = "write" /\ Goto(w, "rename")
      /\ UNCHANGED <<queue, saving, mem, tries, target, tmp, fd, stored, overlap>>
  BY DEF Write, history
<1>2. PICK d \in {mem[w]} \cup (IF data[i] = Empty THEN {} ELSE {Mixed}) :
         data' = [data EXCEPT ![i] = d]
  BY DEF Write
<1>3. i \in Inode
  BY <1>1 DEF TypeOK, FileOK
<1>4. /\ pc' = [pc EXCEPT ![w] = "rename"] /\ pc'[w] = "rename" /\ "rename" \in Step
      /\ \A v \in Writer \ {w} : pc'[v] = pc[v]
  BY <1>1 DEF Goto, TypeOK, Step
<1>5. /\ d \in {mem[w], Mixed} /\ (data[i] = Empty => d = mem[w])
      /\ d \in Jar \cup {Mixed}
  BY <1>2 DEF TypeOK
<1>6. data'[i] = d /\ \A j \in Inode \ {i} : data'[j] = data[j]
  BY <1>2, <1>3 DEF TypeOK
<1>7. /\ w \in Request => queue # <<>> /\ Head(queue) = w /\ Holds(w)
      /\ w \in Request => \A r \in Request \ {w} : ~Holds(r)
      /\ w \in Login \/ w \in Request
      /\ w \in Login => w \notin Request /\ mem[w] = Fresh(w)
      /\ w \notin stored /\ mem[w] \in Jar
  BY <1>1, Saver DEF Saves
<1>8. \A r : r \in Request \cup Login => r \in Writer
  BY DEF Writer
<1>9. w \in Login => /\ \A j \in Inode : data[j].by # w
                     /\ \A r \in Request : mem[r].by # w
  BY <1>1 DEF LoginOK
<1> HIDE DEF i
<1>10. QueueOK' /\ queue' \in Seq(Request) /\ pc' \in [Writer -> Step]
  BY <1>1, <1>4, <1>7, QueueStep
<1>11. TypeOK'
  <2>1. data' \in [Inode -> Jar \cup {Empty, Mixed}]
    BY <1>2, <1>3, <1>5 DEF TypeOK
  <2> QED BY <1>1, <1>10, <2>1 DEF TypeOK
<1>12. TriesOK'
  BY <1>1, <1>4, <1>7, <1>8 DEF TriesOK, Saves
<1>13. FileOK'
  BY <1>1, <1>4 DEF FileOK
<1>14. LoginOK'
  <2> SUFFICES ASSUME NEW l \in Login, pc'[l] \in {"new", "open", "write"}
               PROVE  \A j \in Inode : data'[j].by # l
    BY <1>1, <1>4, <1>8 DEF LoginOK, Saves
  <2>1. l # w /\ pc[l] \in {"new", "open", "write"}
    BY <1>4, <1>8
  <2>2. d.by # l
    BY <1>5, <1>7, <2>1, Sessions DEF LoginOK
  <2> QED BY <1>6, <2>1, <2>2 DEF LoginOK
<1>15. TmpOK'
  <2> SUFFICES ASSUME tmp # 0 PROVE TmpOK'
    BY <1>1 DEF TmpOK
  <2>1. tmp \in Inode /\ tmp' = tmp
    BY <1>1 DEF TypeOK
  <2>2. CASE i = tmp /\ d = Mixed
    BY <1>6, <2>1, <2>2 DEF TmpOK
  <2>3. CASE i = tmp /\ d = mem[w] /\ w \in Request
    BY <1>1, <1>4, <1>6, <2>1, <2>3 DEF TmpOK
  <2>4. CASE i = tmp /\ d = mem[w] /\ w \in Login
    <3>1. OnlyThere(w)'
      BY <1>1, <1>6, <1>7, <1>9, <2>1, <2>4 DEF OnlyThere, Fresh
    <3> QED BY <2>4, <3>1 DEF TmpOK
  <2>5. CASE i # tmp
    <3>1. data'[tmp'] = data[tmp]
      BY <1>6, <2>1, <2>5
    <3>2. CASE data[tmp] \in {Empty, Mixed}
      BY <3>1, <3>2 DEF TmpOK
    <3>3. ASSUME NEW r \in Request, pc[r] = "rename", data[tmp] = mem[r] PROVE TmpOK'
      <4>1. pc'[r] = "rename" /\ mem'[r] = mem[r]
        BY <1>1, <1>4, <1>8, <3>3
      <4> QED BY <3>1, <3>3, <4>1 DEF TmpOK
    <3>4. ASSUME NEW l \in Login, OnlyThere(l) PROVE TmpOK'
      <4>1. data[tmp].by = l
        BY <3>4, Sessions DEF OnlyThere
      <4>2. l # w
        BY <1>9, <2>1, <4>1
      <4>3. d.by # l
        BY <1>5, <1>7, <3>4, <4>2, Sessions DEF OnlyThere
      <4>4. OnlyThere(l)'
        BY <1>1, <1>6, <2>1, <3>1, <3>4, <4>3 DEF OnlyThere
      <4> QED BY <4>4 DEF TmpOK
    <3> QED BY <3>2, <3>3, <3>4 DEF TmpOK
  <2> QED BY <1>5, <1>7, <2>2, <2>3, <2>4, <2>5
<1>16. JarsOK'
  <2>1. \A y : Covers(y)' <=> Covers(y)
    BY <1>1 DEF Covers
  <2>2. \A r \in Request : (Holds(r)' <=> Holds(r)) /\ (pc'[r] = "chmod" => pc[r] = "chmod" /\ r # w)
    BY <1>1, <1>4, <1>8 DEF Holds, Saves
  <2>3. \A r \in stored : pc'[r] = "done"
    BY <1>4, <1>7, <1>8 DEF JarsOK, TypeOK
  <2>4. Covers(d)
    <3>1. CASE d = mem[w] /\ w \in Request
      BY <1>7, <3>1 DEF JarsOK
    <3>2. CASE d = mem[w] /\ w \in Login
      <4>1. d.by = w
        BY <1>7, <3>2, Sessions
      <4> QED BY <1>9, <3>2, <4>1 DEF Covers, TypeOK
    <3>3. CASE d = Mixed
      <4>1. \A r \in stored : mem[r].by # Mixed.by
        BY <1>8, Sessions DEF TypeOK
      <4> QED BY <3>3, <4>1 DEF Covers
    <3> QED BY <1>5, <1>7, <3>1, <3>2, <3>3
  <2>5. target # 0 => Covers(data'[target])
    BY <1>6, <2>4 DEF JarsOK, TypeOK
  <2>6. ASSUME NEW r \in Request, pc'[r] = "chmod", saving[r] = "jar", target # 0,
               data'[target].by = mem[r].by, mem[r].by # Old
        PROVE  r \in data'[target].seen
    <3>1. w \in Login
      BY <1>7, <2>2, <2>6 DEF Holds, Saves
    <3>2. CASE i = target
      <4>1. d.by # mem[r].by
        BY <1>5, <1>7, <1>8, <1>9, <3>1, Sessions DEF TypeOK
      <4> QED BY <1>6, <2>6, <3>2, <4>1 DEF TypeOK
    <3>3. CASE i # target
      <4>1. data'[target] = data[target]
        BY <1>6, <2>6, <3>3 DEF TypeOK
      <4> QED BY <2>2, <2>6, <4>1 DEF JarsOK
    <3> QED BY <3>2, <3>3
  <2> QED BY <1>1, <2>1, <2>2, <2>3, <2>5, <2>6 DEF JarsOK
<1>17. WholeOK'
  <2> SUFFICES ASSUME ~overlap PROVE WholeOK'
    BY <1>1 DEF WholeOK
  <2>1. tmp = i /\ data[i] = Empty /\ target # i
    BY <1>1, <1>3 DEF WholeOK, FileOK, i, Inode
  <2>2. \A v \in Writer \ {w} : ~Writing(v)
    BY <1>1 DEF WholeOK, Writing
  <2>3. \A v \in Writer \ {w} : pc'[v] \notin {"write", "rename", "chmod"} /\ ~Writing(v)'
    BY <1>4, <2>2 DEF Writing
  <2>4. data'[tmp] = d /\ d \in Jar /\ (target # 0 => data'[target] = data[target])
    BY <1>5, <1>6, <1>7, <2>1 DEF TypeOK
  <2> QED BY <1>1, <1>4, <2>1, <2>3, <2>4 DEF WholeOK, i
<1> QED BY <1>10, <1>11, <1>12, <1>13, <1>14, <1>15, <1>16, <1>17
\* A save that finds its file gone is an error, after which the request may go on.
LEMMA FailStep ==
  ASSUME FInv, NEW w \in Writer, SaveFails(w),
         (pc[w] = "rename" /\ tmp = 0) \/ pc[w] = "chmod",
         UNCHANGED <<saving, mem, tries, target, tmp, data, stored, overlap>>
  PROVE  FInv'
<1> USE DEF FInv
<1>1. /\ w \in Request => queue # <<>> /\ Head(queue) = w /\ Holds(w)
      /\ w \in Login \/ w \in Request
      /\ w \in Login => w \notin Request
      /\ w \notin stored
  BY Saver DEF Saves
<1> DEFINE x == pc'[w]
<1>2. /\ Goto(w, x) /\ x \in {"done", "fetching"} /\ x \in Step
      /\ x = "fetching" => w \in Request /\ tries[w] < 2
      /\ queue' = queue \/ (w \in Request /\ x = "done" /\ queue' = Tail(queue))
      /\ fd' = [fd EXCEPT ![w] = 0]
  <2>1. \/ Goto(w, "done") /\ queue' = queue
        \/ Goto(w, "fetching") /\ queue' = queue /\ w \in Request /\ tries[w] < 2
        \/ Goto(w, "done") /\ queue' = Tail(queue) /\ w \in Request
    BY <1>1 DEF SaveFails, Ends, Again
  <2> QED BY <2>1 DEF SaveFails, Goto, TypeOK, Step
<1>3. /\ pc' = [pc EXCEPT ![w] = x] /\ \A v \in Writer \ {w} : pc'[v] = pc[v]
  BY <1>2 DEF Goto, TypeOK
<1>4. \A r : r \in Request \cup Login => r \in Writer
  BY DEF Writer
<1>5. QueueOK' /\ queue' \in Seq(Request) /\ pc' \in [Writer -> Step]
  BY <1>1, <1>2, QueueStep
<1> HIDE DEF x
<1>6. TypeOK'
  BY <1>2, <1>5 DEF TypeOK
<1>7. TriesOK'
  BY <1>2, <1>3, <1>4 DEF TriesOK, Saves, x
<1>8. FileOK'
  <2>1. \A v \in Writer : fd'[v] # 0 <=> pc'[v] \in {"write", "rename"}
    BY <1>2, <1>3 DEF FileOK, TypeOK, x
  <2> QED BY <2>1 DEF FileOK
<1>9. LoginOK'
  BY <1>1, <1>2, <1>3, <1>4 DEF LoginOK, Saves, x
<1>10. TmpOK'
  <2> SUFFICES ASSUME tmp # 0 PROVE TmpOK'
    BY DEF TmpOK
  <2>1. \A r \in Request : pc[r] = "rename" => pc'[r] = "rename"
    BY <1>3, <1>4
  <2> QED BY <2>1 DEF TmpOK, OnlyThere
<1>11. JarsOK'
  <2>1. \A y : Covers(y)' <=> Covers(y)
    BY DEF Covers
  <2>2. \A r \in Request : (Holds(r)' => Holds(r)) /\ (pc'[r] = "chmod" => pc[r] = "chmod")
    BY <1>1, <1>2, <1>3, <1>4 DEF Holds, Saves, x
  <2>3. \A r \in stored : pc'[r] = "done"
    BY <1>1, <1>3, <1>4 DEF JarsOK, TypeOK
  <2> QED BY <2>1, <2>2, <2>3 DEF JarsOK
<1>12. WholeOK'
  <2> SUFFICES ASSUME ~overlap PROVE WholeOK'
    BY DEF WholeOK
  <2>1. pc[w] # "rename"
    BY DEF WholeOK, FileOK
  <2>2. \A v \in Writer : /\ Writing(v)' => Writing(v)
                          /\ pc'[v] \in {"write", "rename"} <=> pc[v] \in {"write", "rename"}
    BY <1>2, <1>3, <2>1 DEF Writing, x
  <2>3. \A v \in Writer : pc[v] \in {"write", "rename"} => fd'[v] = fd[v] /\ pc'[v] = pc[v]
    BY <1>2, <1>3, <2>1 DEF TypeOK
  <2>4. \A v \in Writer \ {w} : pc[v] \notin {"write", "rename"}
    BY <2>1 DEF WholeOK, Writing
  <2>5. tmp = 0 /\ \A v \in Writer : pc'[v] \notin {"write", "rename"}
    BY <2>1, <2>2, <2>4 DEF WholeOK
  <2> QED BY <2>2, <2>5 DEF WholeOK
<1> QED BY <1>5, <1>6, <1>7, <1>8, <1>9, <1>10, <1>11, <1>12

\* The temporary file becomes the session file, whoever wrote it.
LEMMA RenameStep ==
  ASSUME FInv, NEW w \in Writer, Rename(w)
  PROVE  FInv'
<1> USE DEF FInv
<1>1. /\ pc[w] = "rename" /\ UNCHANGED <<saving, mem, tries, data, stored, overlap>>
      /\ \/ tmp = 0 /\ SaveFails(w) /\ UNCHANGED <<target, tmp>>
         \/ /\ tmp # 0 /\ target' = tmp /\ tmp' = 0 /\ fd' = [fd EXCEPT ![w] = 0]
            /\ Goto(w, "chmod") /\ UNCHANGED queue
  BY DEF Rename, history
<1>2. CASE tmp = 0
  BY <1>1, <1>2, FailStep
<1>3. CASE tmp # 0
  <2>1. /\ target' = tmp /\ tmp' = 0 /\ fd' = [fd EXCEPT ![w] = 0] /\ queue' = queue
        /\ Goto(w, "chmod") /\ "chmod" \in Step
    BY <1>1, <1>3 DEF Step
  <2>2. /\ pc' = [pc EXCEPT ![w] = "chmod"] /\ pc'[w] = "chmod"
        /\ \A v \in Writer \ {w} : pc'[v] = pc[v]
    BY <2>1 DEF Goto, TypeOK
  <2>3. /\ w \in Request => queue # <<>> /\ Head(queue) = w /\ Holds(w)
        /\ w \in Request => \A r \in Request \ {w} : ~Holds(r)
        /\ w \notin stored
    BY <1>1, Saver DEF Saves
  <2>4. \A r : r \in Request \cup Login => r \in Writer
    BY DEF Writer
  <2>5. QueueOK' /\ queue' \in Seq(Request) /\ pc' \in [Writer -> Step]
    BY <2>1, <2>3, QueueStep
  <2>6. TypeOK'
    BY <1>1, <1>3, <2>1, <2>5 DEF TypeOK
  <2>7. TriesOK'
    BY <1>1, <2>2, <2>4 DEF TriesOK, Saves
  <2>8. FileOK'
    BY <2>1, <2>2 DEF FileOK, TypeOK
  <2>9. LoginOK'
    BY <1>1, <2>2, <2>4 DEF LoginOK, Saves
  <2>10. TmpOK'
    BY <2>1 DEF TmpOK
  <2>11. /\ \A r \in Request : mem[r] \in Jar /\ mem[r].by \notin {Empty.by, Mixed.by}
         /\ \A l \in Login : OnlyThere(l) => data[tmp].by = l
    BY <2>4, Sessions DEF OnlyThere, TypeOK
  <2>12. JarsOK'
    <3>1. \A y : Covers(y)' <=> Covers(y)
      BY <1>1 DEF Covers
    <3>2. \A r \in Request : Holds(r)' <=> Holds(r)
      BY <1>1, <2>2, <2>4 DEF Holds, Saves
    <3>3. \A r \in stored : pc'[r] = "done"
      BY <2>2, <2>3, <2>4 DEF JarsOK, TypeOK
    <3>4. Covers(data[tmp])
      <4>1. CASE data[tmp] \in {Empty, Mixed}
        BY <2>11, <4>1 DEF Covers, TypeOK
      <4>2. ASSUME NEW r \in Request, pc[r] = "rename", data[tmp] = mem[r] PROVE Covers(data[tmp])
        BY <4>2 DEF JarsOK, Holds, Saves
      <4>3. ASSUME NEW l \in Login, OnlyThere(l) PROVE Covers(data[tmp])
        BY <2>11, <4>3 DEF OnlyThere, Covers, TypeOK
      <4> QED BY <1>3, <4>1, <4>2, <4>3 DEF TmpOK
    <3>5. ASSUME NEW r \in Request, pc'[r] = "chmod", saving[r] = "jar",
                 data[tmp].by = mem[r].by
          PROVE  r \in data[tmp].seen
      <4>1. PICK q \in Request : pc[q] = "rename" /\ data[tmp] = mem[q]
        BY <1>3, <2>11, <3>5 DEF TmpOK, OnlyThere
      <4>2. pc[r] \in {"rename", "chmod"}
        BY <1>1, <2>2, <2>4, <3>5
      <4>3. q = r
        BY <4>1, <4>2 DEF QueueOK, Holds, Saves
      <4> QED BY <3>5, <4>1, <4>3 DEF TriesOK, Saves
    <3> QED BY <1>1, <2>1, <3>1, <3>2, <3>3, <3>4, <3>5 DEF JarsOK
  <2>13. WholeOK'
    <3> SUFFICES ASSUME ~overlap PROVE WholeOK'
      BY <1>1 DEF WholeOK
    <3>1. data[tmp] \in Jar /\ \A v \in Writer \ {w} : ~Writing(v)
      BY <1>1 DEF WholeOK, Writing
    <3>2. \A v \in Writer \ {w} : pc'[v] \notin {"write", "rename", "chmod"} /\ ~Writing(v)'
      BY <2>2, <3>1 DEF Writing
    <3> QED BY <1>1, <2>1, <2>2, <3>1, <3>2 DEF WholeOK
  <2> QED BY <2>5, <2>6, <2>7, <2>8, <2>9, <2>10, <2>12, <2>13
<1> QED BY <1>2, <1>3

\* The last step of a save: the session counts as stored, or a migration goes on.
LEMMA ChmodStep ==
  ASSUME FInv, NEW w \in Writer, Chmod(w)
  PROVE  FInv'
<1> USE DEF FInv
<1>1. pc[w] = "chmod" /\ UNCHANGED <<saving, mem, tries, target, tmp, data, overlap>>
  BY DEF Chmod
<1>2. CASE target = 0
  BY <1>1, <1>2, FailStep DEF Chmod
<1>3. CASE target # 0
  <2>1. /\ w \in Request => queue # <<>> /\ Head(queue) = w /\ Holds(w)
        /\ w \in Request => \A r \in Request \ {w} : ~Holds(r)
        /\ w \in Login \/ w \in Request
        /\ w \in Login => w \notin Request /\ saving[w] = "login"
        /\ w \in Request => saving[w] # "login"
        /\ w \notin stored
    BY <1>1, Saver DEF Saves
  <2> DEFINE x == pc'[w]
  <2>2. /\ Goto(w, x) /\ x \in {"done", "fetching"} /\ x \in Step /\ fd' = fd
        /\ x = "fetching" <=> saving[w] = "migration"
        /\ queue' = queue \/ (w \in Request /\ x = "done" /\ queue' = Tail(queue))
        /\ stored' = IF saving[w] = "jar" THEN stored \cup {w} ELSE stored
    <3>1. \/ w \in Login /\ Goto(w, "done") /\ queue' = queue
          \/ w \in Request /\ saving[w] = "migration" /\ Goto(w, "fetching") /\ queue' = queue
          \/ w \in Request /\ saving[w] # "migration" /\ Goto(w, "done") /\ queue' = Tail(queue)
      BY <1>3, <2>1 DEF Chmod, Ends
    <3>2. fd' = fd /\ stored' = IF saving[w] = "jar" THEN stored \cup {w} ELSE stored
      BY <1>3 DEF Chmod
    <3> QED BY <2>1, <3>1, <3>2 DEF Goto, TypeOK, Step
  <2>3. pc' = [pc EXCEPT ![w] = x] /\ \A v \in Writer \ {w} : pc'[v] = pc[v]
    BY <2>2 DEF Goto, TypeOK
  <2>4. \A r : r \in Request \cup Login => r \in Writer
    BY DEF Writer
  <2>5. QueueOK' /\ queue' \in Seq(Request) /\ pc' \in [Writer -> Step]
    BY <2>1, <2>2, QueueStep
  <2> HIDE DEF x
  <2>6. TypeOK'
    <3>1. stored' \subseteq Request
      BY <2>1, <2>2 DEF TypeOK
    <3> QED BY <1>1, <2>2, <2>5, <3>1 DEF TypeOK
  <2>7. TriesOK'
    BY <1>1, <2>2, <2>3, <2>4 DEF TriesOK, Saves, x
  <2>8. \A v \in Writer : /\ pc'[v] \in {"write", "rename"} <=> pc[v] \in {"write", "rename"}
                          /\ pc[v] \in {"write", "rename"} => pc'[v] = pc[v]
    BY <1>1, <2>2, <2>3 DEF x
  <2>9. FileOK'
    BY <1>1, <2>2, <2>8 DEF FileOK
  <2>10. LoginOK'
    BY <1>1, <2>2, <2>3, <2>4 DEF LoginOK, Saves, x
  <2>11. TmpOK'
    BY <1>1, <2>4, <2>8 DEF TmpOK, OnlyThere
  <2>12. JarsOK'
    <3>1. \A r \in stored' : pc'[r] = "done"
      BY <2>1, <2>2, <2>3, <2>4 DEF JarsOK, TypeOK, x
    <3>2. \A r \in Request : (Holds(r)' => Holds(r)) /\ (pc'[r] = "chmod" => pc[r] = "chmod" /\ r # w)
      BY <2>1, <2>2, <2>3, <2>4 DEF Holds, Saves, x
    <3>3. CASE saving[w] = "jar"
      <4>1. w \in Request /\ stored' = stored \cup {w} /\ pc'[w] = "done"
        BY <2>1, <2>2, <3>3 DEF x
      <4>2. \A r \in Request : ~Holds(r)'
        BY <2>1, <3>2, <4>1 DEF Holds, Saves
      <4>3. data[target].by = mem[w].by /\ mem[w].by # Old => w \in data[target].seen
        BY <1>1, <1>3, <3>3, <4>1 DEF JarsOK
      <4>4. Covers(data[target])'
        <5>1. Covers(data[target])
          BY <1>3 DEF JarsOK
        <5> QED BY <1>1, <4>1, <4>3, <5>1 DEF Covers
      <4>5. \A r \in Request : pc'[r] # "chmod"
        BY <4>2 DEF Holds, Saves
      <4> QED BY <3>1, <4>2, <4>4, <4>5 DEF JarsOK
    <3>4. CASE saving[w] # "jar"
      <4>1. stored' = stored
        BY <2>2, <3>4
      <4>2. \A y : Covers(y)' <=> Covers(y)
        BY <1>1, <4>1 DEF Covers
      <4> QED BY <1>1, <3>1, <3>2, <4>2 DEF JarsOK
    <3> QED BY <3>3, <3>4
  <2>13. WholeOK'
    <3>1. \A v \in Writer : Writing(v)' => Writing(v)
      BY <2>2, <2>3 DEF Writing, x
    <3> QED BY <1>1, <2>2, <2>8, <3>1 DEF WholeOK
  <2> QED BY <2>5, <2>6, <2>7, <2>9, <2>10, <2>11, <2>12, <2>13
<1> QED BY <1>2, <1>3

-----------------------------------------------------------------------------
\* The invariant holds of the file of one login, before anybody asks for anything.
LEMMA InitInv == Init => FInv
<1> SUFFICES ASSUME Init PROVE FInv
  OBVIOUS
<1>1. \A r \in Request : r \in Writer /\ r \notin Login
  BY WriterAssumption DEF Writer
<1>2. \A l \in Login : l \in Writer
  BY DEF Writer
<1>3. 0 \notin Inode /\ 1 \in Inode
  BY WriterAssumption, FS_CardinalityType DEF Inode, Writer
<1>4. TypeOK
  <2>1. /\ mem \in [Writer -> Jar] /\ data \in [Inode -> Jar \cup {Empty, Mixed}]
        /\ saving \in [Writer -> {"jar", "login", "migration"}]
    BY Sessions DEF Init
  <2>2. queue \in Seq(Request) /\ pc \in [Writer -> Step] /\ tries \in [Request -> 0 .. 2]
    BY EmptySeq DEF Init, Step
  <2> QED BY <1>3, <2>1, <2>2 DEF Init, TypeOK
<1>5. QueueOK /\ TriesOK /\ FileOK /\ TmpOK /\ WholeOK
  <2>1. data[1] \in Jar
    BY <1>3, Sessions DEF Init
  <2> QED BY <1>1, <2>1 DEF Init, QueueOK, TriesOK, FileOK, TmpOK, WholeOK, Holds, Saves, Writing
<1>6. LoginOK
  <2>1. \A i \in Inode : data[i].by \in {First, Empty.by}
    BY Sessions DEF Init
  <2> QED BY <1>1, <1>2, <2>1, Sessions DEF Init, LoginOK
<1>7. JarsOK
  BY <1>1 DEF Init, JarsOK, Covers, Holds, Saves
<1> QED BY <1>4, <1>5, <1>6, <1>7 DEF FInv

\* Every step keeps the invariant.
LEMMA InvStep == FInv /\ [Next]_vars => FInv'
<1> SUFFICES ASSUME FInv, [Next]_vars PROVE FInv'
  OBVIOUS
<1>1. ASSUME NEW w \in Writer, Save(w) PROVE FInv'
  BY <1>1, OpenStep, WriteStep, RenameStep, ChmodStep DEF Save
<1>2. ASSUME NEW r \in Request, Issue(r) \/ RequestNext(r) PROVE FInv'
  <2>1. r \in Writer
    BY DEF Writer
  <2> QED BY <1>1, <1>2, <2>1, IssueStep, LoadStep, FetchStep, ExpiredStep DEF RequestNext
<1>3. ASSUME NEW l \in Login, LoggedIn(l) \/ Save(l) PROVE FInv'
  <2>1. l \in Writer
    BY DEF Writer
  <2> QED BY <1>1, <1>3, <2>1, LoggedInStep
<1>4. CASE UNCHANGED vars
  BY <1>4 DEF vars, FInv, TypeOK, QueueOK, TriesOK, FileOK, LoginOK, TmpOK, OnlyThere, JarsOK,
              Covers, Holds, WholeOK, Writing
<1> QED BY <1>2, <1>3, <1>4, LogoutStep DEF Next

(* The invariant holds in every state.                                     *)
THEOREM Invariance == Spec => []FInv
BY InitInv, InvStep, PTL DEF Spec

(* Type correctness: of the file, the temporary file, the queue of writers *)
(* and what every request holds in memory.                                 *)
THEOREM TypeCorrect == Spec => []TypeOK
<1>1. FInv => TypeOK
  BY DEF FInv
<1> QED BY <1>1, Invariance, PTL

(* Requests do not lose each other's cookies: the session in the file has  *)
(* those of every request that stored its jar after the same login.        *)
THEOREM CookiesKeptHolds == Spec => []CookiesKept
<1>1. FInv => CookiesKept
  BY Sessions DEF FInv, CookiesKept, Content, JarsOK, Covers
<1> QED BY <1>1, Invariance, PTL

(* The session file is well typed, and whole unless saves overlapped.      *)
THEOREM WholeFileHolds == Spec => []WholeFile
<1>1. FInv => WholeFile
  BY DEF FInv, WholeFile, WholeOK
<1> QED BY <1>1, Invariance, PTL
=============================================================================
