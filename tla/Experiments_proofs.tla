-------------------------- MODULE Experiments_proofs --------------------------
(***************************************************************************)
(* Theorems of Experiments, for any calls, requests, timestamps and        *)
(* notebooks.  The argument is about inodes: every reference to one, from  *)
(* a file name, a tmp sibling or an open file, belongs to one path.        *)
(***************************************************************************)
EXTENDS Experiments, TLAPS

\* The path an inode was created for.
Home(i) == IF i \in Calls THEN path[i] ELSE i

Labels == {"idle", "open", "cleanup", "parse", "scan", "done", "lost"} \cup Writing

\* Every reference to an inode is from the path it was created for, and the
\* call it was created by has started.
OnePathPerInode ==
  /\ \A p \in Paths : file[p] # None =>
       Home(file[p]) = p /\ (file[p] \in Calls => pc[file[p]] \notin {"idle", "open"})
  /\ \A p \in Paths : tmp[p] # None =>
       tmp[p] \in Calls /\ path[tmp[p]] = p /\ pc[tmp[p]] \notin {"idle", "open"}
  /\ \A c \in Calls : fd[c] # None =>
       fd[c] \in Calls /\ path[fd[c]] = path[c] /\ pc[fd[c]] \notin {"idle", "open"}

\* A write is on its way to the file its arguments name, in the current format.
WritersKnowTheirPath ==
  \A c \in Calls :
    /\ pc[c] \in Writing <=> fd[c] # None
    /\ pc[c] \in {"open"} \cup Writing =>
         /\ req[c] \in AllRequests /\ req[c].op = "write_experiment"
         /\ path[c] \in Paths /\ path[c].name.fmt = "micro"
         /\ path[c].pid = req[c].pid
    /\ pc[c] = "parse" => path[c] \in Paths /\ file[path[c]] # None

\* Nothing but records of its path is in an inode a call created, and none of
\* another run in a file that was there at first.
ContentsFitTheirPath ==
  /\ \A c \in Calls, h \in Halves : data[c][h] # None =>
       /\ pc[c] \notin {"idle", "open"}
       /\ path[c] \in Paths /\ path[c].name.fmt = "micro"
       /\ data[c][h].pid = path[c].pid /\ data[c][h].at = path[c].name.at
  /\ \A p \in Paths, h \in Halves :
       p.name.fmt = "micro" /\ data[p][h] # None =>
         data[p][h].pid = p.pid /\ data[p][h].at = p.name.at

Inv ==
  /\ TypeOK
  /\ OnePathPerInode
  /\ WritersKnowTheirPath
  /\ ContentsFitTheirPath

-----------------------------------------------------------------------------
\* A write's target is a path in the current format.
LEMMA TargetIs ==
  ASSUME NEW pid \in Pids, NEW t \in Times
  PROVE  /\ Target(pid, t) \in Paths
         /\ Target(pid, t).pid = pid
         /\ Target(pid, t).name.fmt = "micro"
  BY DEF Target, Micro, Paths, Names

\* What read_experiment finds is a path that has a file.
LEMMA FoundIsPresent ==
  ASSUME NEW pid \in Pids, NEW t \in Times, Found(Present, pid, t) # None
  PROVE  Found(Present, pid, t) \in Present
  BY DEF Found

\* A path's timestamp is an instant, if the path is in the current format.
LEMMA MicroPath ==
  ASSUME NEW p \in Paths, p.name.fmt = "micro"
  PROVE  p.pid \in Pids /\ p.name.at \in Times
  BY DEF Paths, Names

\* The calls and paths are kept apart, and from None.
LEMMA Apart ==
  /\ Calls \cap Paths = {} /\ None \notin Calls \cup Paths \cup Docs
  /\ None \notin [path : Paths, doc : Docs]
  /\ Garbled \notin Docs \cup {None} /\ Requests \subseteq AllRequests
  /\ MaxFaults \in Nat
  BY ExperimentsAssumption, Zenon

\* The invariant holds initially.
LEMMA InitInv == Init => Inv
<1> SUFFICES ASSUME Init PROVE Inv
  OBVIOUS
<1>1. PICK runs \in FirstRuns :
        /\ file = [p \in Paths |-> IF runs[p] = None THEN None ELSE p]
        /\ data = [i \in Inodes |-> IF i \in Paths THEN WholeOf(runs[i]) ELSE Blank]
  BY DEF Init
<1>2. /\ runs \in [Paths -> Docs \cup {None}]
      /\ \A p \in Paths : p.name.fmt = "micro" /\ runs[p] # None =>
           runs[p].pid = p.pid /\ runs[p].at = p.name.at
  BY ExperimentsAssumption, Zenon
<1>3. TypeOK
  BY <1>1, <1>2, Apart DEF Init, TypeOK, Inodes, WholeOf, Blank, Nothing, Writing
<1>4. OnePathPerInode
  BY <1>1, Apart DEF Init, OnePathPerInode, Home
<1>5. WritersKnowTheirPath
  BY DEF Init, WritersKnowTheirPath, Writing
<1>6. ContentsFitTheirPath
  <2>1. \A c \in Calls, h \in Halves : data[c][h] = None
    BY <1>1, Apart DEF Inodes, Blank
  <2>2. \A p \in Paths, h \in Halves : data[p][h] = runs[p]
    BY <1>1 DEF Inodes, WholeOf
  <2> QED
    BY <1>2, <2>1, <2>2 DEF ContentsFitTheirPath
<1> QED
  BY <1>3, <1>4, <1>5, <1>6 DEF Inv

-----------------------------------------------------------------------------
\* The arguments of a write.
LEMMA WriteArguments ==
  ASSUME NEW r \in AllRequests, r.op = "write_experiment"
  PROVE  r.pid \in Pids /\ r.at \in Writable \cup {None} /\ r.body \in Bodies
  BY DEF AllRequests, WriteRequests, ReadRequests, ListRequests, BadRequests

\* The arguments of a read.
LEMMA ReadArguments ==
  ASSUME NEW r \in AllRequests, r.op = "read_experiment"
  PROVE  r.pid \in Pids /\ r.at \in Spellings
  BY DEF AllRequests, WriteRequests, ReadRequests, ListRequests, BadRequests

\* The arguments of a listing.
LEMMA ListArguments ==
  ASSUME NEW r \in AllRequests, r.op = "list_experiments"
  PROVE  r.pid \in Pids \cup {None}
  BY DEF AllRequests, WriteRequests, ReadRequests, ListRequests, BadRequests

Answers ==
  [is : {"none", "ok", "not_initialized", "invalid", "invalid_value", "not_found",
         "parse_error", "tool_error"},
   doc : Docs \cup {Garbled, None}]

\* An answer ends its call and leaves the other calls' alone.
LEMMA AnswerTypes ==
  ASSUME NEW c \in Calls, TypeOK,
         NEW is \in {"ok", "not_initialized", "invalid", "invalid_value", "not_found",
                     "parse_error", "tool_error"},
         NEW d \in Docs \cup {Garbled, None}, Answer(c, is, d)
  PROVE  /\ result' \in [Calls -> Answers]
         /\ pc' = [pc EXCEPT ![c] = "done"]
  BY DEF TypeOK, Answers, Answer, Say, Goto

\* An exception sends its call to the clean-up.
LEMMA RaiseTypes ==
  ASSUME NEW c \in Calls, TypeOK, Raise(c)
  PROVE  /\ result' \in [Calls -> Answers]
         /\ pc' = [pc EXCEPT ![c] = "cleanup"]
  BY DEF TypeOK, Answers, Raise, Say, Goto

\* References stay apart while none is made, whatever calls that hold none do.
LEMMA ReferencesKept ==
  ASSUME Inv, UNCHANGED <<file, tmp, fd>>,
         \A d \in Calls : pc[d] \notin {"idle", "open"} =>
           path'[d] = path[d] /\ pc'[d] \notin {"idle", "open"}
  PROVE  OnePathPerInode'
<1>1. ASSUME NEW p \in Paths, file[p] # None
      PROVE  Home(file[p])' = p /\ (file[p] \in Calls => pc'[file[p]] \notin {"idle", "open"})
  BY <1>1 DEF Inv, OnePathPerInode, Home
<1>2. ASSUME NEW p \in Paths, tmp[p] # None
      PROVE  tmp[p] \in Calls /\ path'[tmp[p]] = p /\ pc'[tmp[p]] \notin {"idle", "open"}
  BY <1>2 DEF Inv, OnePathPerInode
<1>3. ASSUME NEW c \in Calls, fd[c] # None
      PROVE  fd[c] \in Calls /\ path'[fd[c]] = path'[c] /\ pc'[fd[c]] \notin {"idle", "open"}
  BY <1>3 DEF Inv, OnePathPerInode, WritersKnowTheirPath, Writing
<1> QED
  BY <1>1, <1>2, <1>3 DEF OnePathPerInode, Home

\* A call that starts has touched no inode and no path before.
LEMMA StartInv ==
  ASSUME Inv, NEW c \in Calls, NEW r \in Requests, Start(c, r)
  PROVE  Inv'
<1> r \in AllRequests
  BY Apart
<1>1. /\ pc[c] = "idle" /\ req' = [req EXCEPT ![c] = r]
      /\ before' = [before EXCEPT ![c] = Present]
      /\ UNCHANGED <<exists, file, tmp, data, fd, listed, overlapped, faults>>
  BY DEF Start, Reject, StartWrite, StartRead, StartList, Begin
<1>2. /\ \E l \in {"open", "parse", "scan", "done"} : pc' = [pc EXCEPT ![c] = l]
      /\ path' \in [Calls -> Paths \cup {None}]
      /\ \A d \in Calls \ {c} : path'[d] = path[d]
      /\ todo' \in [Calls -> SUBSET Pids]
      /\ result' \in [Calls -> Answers]
      /\ pc'[c] = "open" => /\ r.op = "write_experiment"
                            /\ path'[c] \in Paths /\ path'[c].name.fmt = "micro"
                            /\ path'[c].pid = r.pid
      /\ pc'[c] = "parse" => path'[c] \in Present
  <2>0. /\ pc \in [Calls -> Labels] /\ path \in [Calls -> Paths \cup {None}]
        /\ todo \in [Calls -> SUBSET Pids] /\ result \in [Calls -> Answers]
    BY DEF Inv, TypeOK, Labels, Answers
  <2>1. CASE Reject(c, r)
    <3>1. Rejected(r) \in {"not_initialized", "invalid", "invalid_value"}
      BY <2>1 DEF Reject, Rejected
    <3>2. Answer(c, Rejected(r), None) /\ UNCHANGED <<path, todo>>
      BY <2>1 DEF Reject
    <3>3. result' \in [Calls -> Answers] /\ pc' = [pc EXCEPT ![c] = "done"]
      BY <3>1, <3>2, AnswerTypes DEF Inv
    <3> QED
      BY <2>0, <3>2, <3>3
  <2>2. CASE StartWrite(c, r)
    <3>1. PICK t \in Times : path' = [path EXCEPT ![c] = Target(r.pid, t)]
      BY <2>2 DEF StartWrite
    <3>2. r.op = "write_experiment" /\ pc' = [pc EXCEPT ![c] = "open"]
            /\ UNCHANGED <<todo, result>>
      BY <2>2 DEF StartWrite, Goto
    <3>3. r.pid \in Pids
      BY <3>2, WriteArguments
    <3>4. /\ Target(r.pid, t) \in Paths /\ Target(r.pid, t).pid = r.pid
          /\ Target(r.pid, t).name.fmt = "micro"
      BY <3>3, TargetIs
    <3> QED
      BY <2>0, <3>1, <3>2, <3>4
  <2>3. CASE StartRead(c, r)
    <3> DEFINE p == Found(Present, r.pid, Utc[r.at])
    <3>1. /\ r.op = "read_experiment" /\ path' = [path EXCEPT ![c] = p]
          /\ UNCHANGED todo
          /\ (IF p = None THEN Answer(c, "not_found", None)
                          ELSE Goto(c, "parse") /\ UNCHANGED result)
      BY <2>3 DEF StartRead
    <3>2. r.pid \in Pids /\ Utc[r.at] \in Times
      BY <3>1, ReadArguments, ExperimentDataAssumption
    <3>3. p = None \/ p \in Present
      BY <3>2, FoundIsPresent
    <3>4. Present \subseteq Paths
      BY DEF Present
    <3> HIDE DEF p
    <3>5. CASE p = None
      <4>1. result' \in [Calls -> Answers] /\ pc' = [pc EXCEPT ![c] = "done"]
        BY <3>1, <3>5, AnswerTypes DEF Inv
      <4> QED
        BY <2>0, <3>1, <3>5, <4>1
    <3>6. CASE p \in Present
      <4>1. p # None
        BY <3>4, <3>6, Apart
      <4> QED
        BY <2>0, <3>1, <3>4, <3>6, <4>1 DEF Goto
    <3> QED
      BY <3>3, <3>5, <3>6
  <2>4. CASE StartList(c, r)
    <3>1. r.op = "list_experiments" /\ pc' = [pc EXCEPT ![c] = "scan"]
            /\ todo' = [todo EXCEPT ![c] = IF r.pid = None THEN Pids ELSE {r.pid}]
            /\ UNCHANGED <<path, result>>
      BY <2>4 DEF StartList, Goto
    <3>2. r.pid \in Pids \cup {None}
      BY <3>1, ListArguments
    <3>3. (IF r.pid = None THEN Pids ELSE {r.pid}) \in SUBSET Pids
      BY <3>2
    <3> QED
      BY <2>0, <3>1, <3>3
  <2> QED
    BY <2>1, <2>2, <2>3, <2>4 DEF Start
<1>3. TypeOK'
  BY ZenonT(40), <1>1, <1>2 DEF Inv, TypeOK, Answers, Present
<1>4. OnePathPerInode'
  <2>1. ASSUME NEW d \in Calls, pc[d] \notin {"idle", "open"}
        PROVE  path'[d] = path[d] /\ pc'[d] \notin {"idle", "open"}
    BY <1>1, <1>2, <2>1 DEF Inv, TypeOK
  <2> QED
    BY <1>1, <2>1, ReferencesKept
<1>5. WritersKnowTheirPath'
  BY <1>1, <1>2 DEF Inv, TypeOK, WritersKnowTheirPath, Writing, Present
<1>6. ContentsFitTheirPath'
  BY <1>1, <1>2 DEF Inv, TypeOK, ContentsFitTheirPath
<1> QED
  BY <1>3, <1>4, <1>5, <1>6 DEF Inv

\* A record that is being written names the path it is written to.
LEMMA StoredFits ==
  ASSUME Inv, NEW c \in Calls, pc[c] \in {"open"} \cup Writing
  PROVE  /\ Stored(c) \in Docs /\ Stored(c) # None
         /\ Stored(c).pid = path[c].pid /\ Stored(c).at = path[c].name.at
<1>1. /\ req[c] \in AllRequests /\ req[c].op = "write_experiment"
      /\ path[c] \in Paths /\ path[c].name.fmt = "micro"
      /\ path[c].pid = req[c].pid
  BY DEF Inv, WritersKnowTheirPath
<1>2. req[c].pid \in Pids /\ req[c].body \in Bodies /\ path[c].name.at \in Times
  BY <1>1, WriteArguments, MicroPath
<1> QED
  BY <1>1, <1>2, Apart DEF Stored, Docs

\* Opening the sibling keeps to the inodes of its path.
LEMMA OpenTmpInv ==
  ASSUME Inv, NEW c \in Calls, OpenTmp(c)
  PROVE  Inv'
<1> DEFINE p == path[c]
           i == IF tmp[p] = None THEN c ELSE tmp[p]
<1>1. /\ pc[c] = "open" /\ pc' = [pc EXCEPT ![c] = "head"]
      /\ tmp' = [tmp EXCEPT ![p] = i] /\ data' = [data EXCEPT ![i] = Blank]
      /\ fd' = [fd EXCEPT ![c] = i]
      /\ overlapped' \subseteq Calls
      /\ UNCHANGED <<exists, file, req, path, todo, listed, result, before, faults>>
  BY DEF OpenTmp, Sibling, Goto, Rivals, Inv, TypeOK
<1>2. /\ req[c] \in AllRequests /\ req[c].op = "write_experiment"
      /\ p \in Paths /\ p.name.fmt = "micro" /\ p.pid = req[c].pid
  BY <1>1 DEF Inv, WritersKnowTheirPath
<1>3. /\ i \in Calls /\ path[i] = p /\ (i = c \/ pc[i] \notin {"idle", "open"})
      /\ i \notin Paths /\ i # None
  BY <1>2, Apart DEF Inv, OnePathPerInode
<1> HIDE DEF i, p
<1>4. pc'[i] \notin {"idle", "open"} /\ path'[c] = p
  BY <1>1, <1>2, <1>3 DEF Inv, TypeOK, p
<1>5. TypeOK'
  BY <1>1, <1>2, <1>3 DEF Inv, TypeOK, Blank, Inodes, Writing
<1>6. OnePathPerInode'
  <2>1. ASSUME NEW q \in Paths, file[q] # None
        PROVE  Home(file[q])' = q /\ (file[q] \in Calls => pc'[file[q]] \notin {"idle", "open"})
    BY <1>1, <2>1 DEF Inv, TypeOK, OnePathPerInode, Home
  <2>2. ASSUME NEW q \in Paths, tmp'[q] # None
        PROVE  tmp'[q] \in Calls /\ path'[tmp'[q]] = q /\ pc'[tmp'[q]] \notin {"idle", "open"}
    BY <1>1, <1>2, <1>3, <1>4, <2>2 DEF Inv, TypeOK, OnePathPerInode
  <2>3. ASSUME NEW d \in Calls, fd'[d] # None
        PROVE  fd'[d] \in Calls /\ path'[fd'[d]] = path'[d] /\ pc'[fd'[d]] \notin {"idle", "open"}
    BY <1>1, <1>3, <1>4, <2>3 DEF Inv, TypeOK, OnePathPerInode
  <2> QED
    BY <1>1, <2>1, <2>2, <2>3 DEF OnePathPerInode, Home
<1>7. WritersKnowTheirPath'
  BY <1>1, <1>2, <1>3 DEF Inv, TypeOK, WritersKnowTheirPath, Writing, p
<1>8. ContentsFitTheirPath'
  <2>1. \A h \in Halves : data'[i][h] = None
    BY <1>1, <1>3 DEF Inv, TypeOK, Inodes, Blank
  <2>2. \A j \in Inodes : j # i => data'[j] = data[j]
    BY <1>1 DEF Inv, TypeOK
  <2> QED
    BY <1>1, <1>3, <1>4, <2>1, <2>2 DEF Inv, TypeOK, ContentsFitTheirPath, Inodes
<1> QED
  BY <1>5, <1>6, <1>7, <1>8 DEF Inv

\* A write to the inode a call has open is of a record of the inode's path.
LEMMA WriteHalfInv ==
  ASSUME Inv, NEW c \in Calls, WriteHead(c) \/ WriteTail(c)
  PROVE  Inv'
<1>1. PICK half \in Halves :
        /\ pc[c] \in {"head", "tail"}
        /\ data' = [data EXCEPT ![fd[c]] = [@ EXCEPT ![half] = Stored(c)]]
  BY DEF WriteHead, WriteTail, WriteHalf, Halves
<1>2. /\ \E l \in {"tail", "replace"} : pc' = [pc EXCEPT ![c] = l]
      /\ UNCHANGED <<exists, file, tmp, req, path, fd, todo, listed, result, before,
                     overlapped, faults>>
  BY DEF WriteHead, WriteTail, WriteHalf, Goto, AfterHead, AfterTail
<1>3. /\ fd[c] \in Calls /\ path[fd[c]] = path[c] /\ pc[fd[c]] \notin {"idle", "open"}
      /\ path[c] \in Paths /\ path[c].name.fmt = "micro"
  BY <1>1 DEF Inv, OnePathPerInode, WritersKnowTheirPath, Writing
<1>4. /\ Stored(c) \in Docs /\ Stored(c) # None
      /\ Stored(c).pid = path[c].pid /\ Stored(c).at = path[c].name.at
  BY <1>1, StoredFits DEF Writing
<1>5. TypeOK'
  <2>1. data' \in [Inodes -> [Halves -> Docs \cup {None}]]
    BY <1>1, <1>3, <1>4 DEF Inv, TypeOK, Inodes
  <2>2. pc' \in [Calls -> {"idle", "open", "cleanup", "parse", "scan", "done", "lost"} \cup Writing]
    BY <1>2 DEF Inv, TypeOK, Writing
  <2> QED
    BY <1>2, <2>1, <2>2 DEF Inv, TypeOK
<1>6. \A d \in Calls : pc[d] \notin {"idle", "open"} =>
        path'[d] = path[d] /\ pc'[d] \notin {"idle", "open"}
  BY <1>2 DEF Inv, TypeOK
<1>7. OnePathPerInode'
  BY <1>2, <1>6, ReferencesKept
<1>8. WritersKnowTheirPath'
  BY <1>1, <1>2 DEF Inv, TypeOK, WritersKnowTheirPath, Writing
<1>9. ContentsFitTheirPath'
  <2>1. \A h \in Halves : data'[fd[c]][h] # None =>
          data'[fd[c]][h] = data[fd[c]][h] \/ data'[fd[c]][h] = Stored(c)
    BY <1>1, <1>3 DEF Inv, TypeOK, Inodes
  <2>2. \A j \in Inodes : j # fd[c] => data'[j] = data[j]
    BY <1>1 DEF Inv, TypeOK
  <2>3. ASSUME NEW d \in Calls, NEW h \in Halves, data'[d][h] # None
        PROVE  /\ pc'[d] \notin {"idle", "open"}
               /\ path'[d] \in Paths /\ path'[d].name.fmt = "micro"
               /\ data'[d][h].pid = path'[d].pid /\ data'[d][h].at = path'[d].name.at
    <3>1. CASE d = fd[c] /\ data'[d][h] = Stored(c)
      BY <1>2, <1>3, <1>4, <1>6, <3>1
    <3>2. CASE data'[d][h] = data[d][h]
      BY <1>2, <1>6, <2>3, <3>2 DEF Inv, ContentsFitTheirPath
    <3> QED
      BY <2>1, <2>2, <2>3, <3>1, <3>2 DEF Inodes
  <2>4. \A q \in Paths : data'[q] = data[q]
    BY <1>3, <2>2, Apart DEF Inodes
  <2> QED
    BY <2>3, <2>4 DEF Inv, ContentsFitTheirPath
<1> QED
  BY <1>5, <1>7, <1>8, <1>9 DEF Inv

\* A renamed sibling was created for the path it is renamed to.
LEMMA ReplaceInv ==
  ASSUME Inv, NEW c \in Calls, Replace(c)
  PROVE  Inv'
<1>1. /\ pc[c] = "replace" /\ fd' = [fd EXCEPT ![c] = None]
      /\ UNCHANGED <<exists, data, req, path, todo, listed, before, overlapped, faults>>
  BY DEF Replace
<1>2. /\ Answer(c, "ok", None) \/ Raise(c)
      /\ tmp' = tmp \/ tmp' = [tmp EXCEPT ![path[c]] = None]
      /\ \/ file' = file
         \/ tmp[path[c]] # None /\ file' = [file EXCEPT ![path[c]] = tmp[path[c]]]
  BY DEF Replace, Sibling
<1>3. path[c] \in Paths
  BY <1>1 DEF Inv, WritersKnowTheirPath, Writing
<1>4. /\ result' \in [Calls -> Answers]
      /\ \E l \in {"done", "cleanup"} : pc' = [pc EXCEPT ![c] = l]
  BY <1>2, AnswerTypes, RaiseTypes DEF Inv
<1>5. TypeOK'
  <2>1. pc' \in [Calls -> Labels]
    BY <1>4 DEF Inv, TypeOK, Labels
  <2>2. /\ tmp' \in [Paths -> Inodes \cup {None}] /\ file' \in [Paths -> Inodes \cup {None}]
        /\ fd' \in [Calls -> Inodes \cup {None}]
    BY <1>1, <1>2, <1>3 DEF Inv, TypeOK
  <2> QED
    BY <1>1, <1>4, <2>1, <2>2 DEF Inv, TypeOK, Answers, Labels
<1>6. OnePathPerInode'
  <2>1. ASSUME NEW q \in Paths, file'[q] # None
        PROVE  Home(file'[q]) = q /\ (file'[q] \in Calls => pc'[file'[q]] \notin {"idle", "open"})
    <3>1. CASE file'[q] = file[q]
      BY <1>4, <2>1, <3>1 DEF Inv, TypeOK, OnePathPerInode
    <3>2. CASE q = path[c] /\ file'[q] = tmp[q] /\ tmp[q] # None
      BY <1>4, <3>2 DEF Inv, TypeOK, OnePathPerInode, Home
    <3> QED
      BY <1>2, <1>3, <3>1, <3>2 DEF Inv, TypeOK
  <2>2. ASSUME NEW q \in Paths, tmp'[q] # None
        PROVE  tmp'[q] \in Calls /\ path[tmp'[q]] = q /\ pc'[tmp'[q]] \notin {"idle", "open"}
    BY <1>2, <1>4, <2>2 DEF Inv, TypeOK, OnePathPerInode
  <2>3. ASSUME NEW d \in Calls, fd'[d] # None
        PROVE  fd'[d] \in Calls /\ path[fd'[d]] = path[d] /\ pc'[fd'[d]] \notin {"idle", "open"}
    BY <1>1, <1>4, <2>3 DEF Inv, TypeOK, OnePathPerInode
  <2> QED
    BY <1>1, <2>1, <2>2, <2>3 DEF OnePathPerInode, Home
<1>7. WritersKnowTheirPath'
  <2>1. \A q \in Paths : file[q] # None => file'[q] # None
    BY <1>2, <1>3 DEF Inv, TypeOK
  <2> QED
    BY <1>1, <1>4, <2>1 DEF Inv, TypeOK, WritersKnowTheirPath, Writing
<1>8. ContentsFitTheirPath'
  BY <1>1, <1>4 DEF Inv, TypeOK, ContentsFitTheirPath
<1> QED
  BY <1>5, <1>6, <1>7, <1>8 DEF Inv

\* A call that ends, or goes on reading, creates no reference to an inode.
LEMMA OtherStepsInv ==
  ASSUME Inv, NEW c \in Calls,
         \/ Parse(c) \/ (\E pid \in Pids : Scan(c, pid)) \/ ScanDone(c)
         \/ CleanUp(c) \/ MkdirFails(c) \/ WriteFails(c)
  PROVE  Inv'
<1>1. UNCHANGED <<exists, file, data, req, path, before, overlapped>>
  BY DEF Parse, Scan, ScanDone, CleanUp, MkdirFails, WriteFails
<1>2. /\ todo' \in [Calls -> SUBSET Pids] /\ listed' \in [Calls -> SUBSET Paths]
      /\ faults' \in 0 .. MaxFaults
  <2>1. todo' \in [Calls -> SUBSET Pids] /\ listed' \in [Calls -> SUBSET Paths]
    <3>1. \/ UNCHANGED <<todo, listed>>
          \/ \E pid \in Pids :
               /\ todo' = [todo EXCEPT ![c] = @ \ {pid}]
               /\ listed' = [listed EXCEPT ![c] = @ \cup InDir(pid)]
      BY DEF Parse, Scan, ScanDone, CleanUp, MkdirFails, WriteFails
    <3>2. \A pid \in Pids : InDir(pid) \subseteq Paths
      BY DEF InDir, Present
    <3>3. todo \in [Calls -> SUBSET Pids] /\ listed \in [Calls -> SUBSET Paths]
      BY DEF Inv, TypeOK
    <3>4. CASE UNCHANGED <<todo, listed>>
      BY <3>3, <3>4
    <3>5. ASSUME NEW pid \in Pids, todo' = [todo EXCEPT ![c] = @ \ {pid}],
                 listed' = [listed EXCEPT ![c] = @ \cup InDir(pid)]
          PROVE  todo' \in [Calls -> SUBSET Pids] /\ listed' \in [Calls -> SUBSET Paths]
      <4>1. todo[c] \ {pid} \in SUBSET Pids /\ listed[c] \cup InDir(pid) \in SUBSET Paths
        BY <3>2, <3>3
      <4> QED
        BY <3>3, <3>5, <4>1
    <3> QED
      BY <3>1, <3>4, <3>5
  <2>2. faults' = faults \/ (faults < MaxFaults /\ faults' = faults + 1)
    BY DEF Parse, Scan, ScanDone, CleanUp, MkdirFails, WriteFails, Fault
  <2>3. faults \in 0 .. MaxFaults
    BY DEF Inv, TypeOK
  <2> QED
    BY <2>1, <2>2, <2>3, Apart
<1>3. /\ result' \in [Calls -> Answers]
      /\ pc' = pc \/ \E l \in {"done", "cleanup"} : pc' = [pc EXCEPT ![c] = l]
  <2>1. ASSUME NEW is \in {"ok", "parse_error", "tool_error"},
               NEW d \in Docs \cup {Garbled, None}, Answer(c, is, d)
        PROVE  result' \in [Calls -> Answers] /\ pc' = [pc EXCEPT ![c] = "done"]
    BY <2>1, AnswerTypes DEF Inv
  <2>2. CASE Parse(c)
    <3> DEFINE i == file[path[c]]
    <3>1. i \in Inodes
      BY <2>2 DEF Parse, Inv, TypeOK, WritersKnowTheirPath
    <3>2. data[i][1] \in Docs \cup {None}
      BY <3>1 DEF Inv, TypeOK, Halves
    <3>3. \E is \in {"ok", "parse_error"}, d \in {data[i][1], Garbled, None} : Answer(c, is, d)
      BY <2>2 DEF Parse
    <3> QED
      BY <2>1, <3>2, <3>3
  <2>3. CASE \E pid \in Pids : Scan(c, pid)
    BY <2>3 DEF Scan, Inv, TypeOK, Answers
  <2>4. CASE ScanDone(c) \/ MkdirFails(c)
    <3>1. \E is \in {"ok", "tool_error"} : Answer(c, is, None)
      BY <2>4 DEF ScanDone, MkdirFails
    <3> QED
      BY <2>1, <3>1
  <2>5. CASE WriteFails(c)
    BY <2>5, RaiseTypes DEF WriteFails, Inv
  <2>6. CASE CleanUp(c)
    BY <2>6 DEF CleanUp, Goto, Inv, TypeOK, Answers
  <2> QED
    BY <2>2, <2>3, <2>4, <2>5, <2>6
<1>4. \/ UNCHANGED <<tmp, fd>> /\ (pc' = pc \/ pc[c] \notin Writing)
      \/ /\ pc' = [pc EXCEPT ![c] = "cleanup"] /\ fd' = [fd EXCEPT ![c] = None]
         /\ tmp' = tmp
      \/ /\ pc[c] \notin Writing /\ fd' = fd
         /\ tmp' = [tmp EXCEPT ![path[c]] = None]
  BY DEF Parse, Scan, ScanDone, CleanUp, MkdirFails, WriteFails, Sibling, Writing, Answer,
         Raise, Goto
<1>5. TypeOK'
  <2>1. pc' \in [Calls -> Labels]
    BY <1>3 DEF Inv, TypeOK, Labels
  <2>2. fd' \in [Calls -> Inodes \cup {None}] /\ tmp' \in [Paths -> Inodes \cup {None}]
    BY <1>4 DEF Inv, TypeOK
  <2> QED
    BY <1>1, <1>2, <1>3, <2>1, <2>2 DEF Inv, TypeOK, Answers, Labels
<1>6. \A d \in Calls : pc[d] \notin {"idle", "open"} => pc'[d] \notin {"idle", "open"}
  BY <1>3 DEF Inv, TypeOK
<1>7. OnePathPerInode'
  <2>1. ASSUME NEW q \in Paths, tmp'[q] # None
        PROVE  tmp'[q] = tmp[q]
    BY <1>4, <2>1 DEF Inv, TypeOK
  <2>2. ASSUME NEW d \in Calls, fd'[d] # None
        PROVE  fd'[d] = fd[d]
    BY <1>4, <2>2 DEF Inv, TypeOK
  <2> QED
    BY <1>1, <1>6, <2>1, <2>2 DEF Inv, OnePathPerInode, Home
<1>8. WritersKnowTheirPath'
  BY <1>1, <1>3, <1>4 DEF Inv, TypeOK, WritersKnowTheirPath, Writing
<1>9. ContentsFitTheirPath'
  BY <1>1, <1>3 DEF Inv, TypeOK, ContentsFitTheirPath
<1> QED
  BY <1>5, <1>7, <1>8, <1>9 DEF Inv

\* A restart forgets the calls that were in flight, not the files.
LEMMA CrashInv ==
  ASSUME Inv, Crash
  PROVE  Inv'
<1>1. /\ pc' = [c \in Calls |-> IF pc[c] \in {"idle", "done"} THEN pc[c] ELSE "lost"]
      /\ fd' = [c \in Calls |-> None] /\ faults' \in 0 .. MaxFaults
      /\ UNCHANGED <<exists, file, tmp, data, req, path, todo, listed, result, before,
                     overlapped>>
  BY Apart DEF Crash, Fault, Inv, TypeOK
<1>2. TypeOK'
  BY <1>1 DEF Inv, TypeOK
<1>3. OnePathPerInode'
  BY <1>1 DEF Inv, OnePathPerInode, Home
<1>4. WritersKnowTheirPath'
  BY <1>1 DEF WritersKnowTheirPath, Writing
<1>5. ContentsFitTheirPath'
  BY <1>1 DEF Inv, ContentsFitTheirPath
<1> QED
  BY <1>2, <1>3, <1>4, <1>5 DEF Inv

\* Every step keeps the invariant.
LEMMA StepInv == Inv /\ [Next]_vars => Inv'
<1> SUFFICES ASSUME Inv, [Next]_vars PROVE Inv'
  OBVIOUS
<1>1. CASE Bootstrap
  BY <1>1 DEF Bootstrap, Inv, TypeOK, OnePathPerInode, Home, WritersKnowTheirPath,
              ContentsFitTheirPath
<1>2. ASSUME NEW c \in Calls, NEW r \in Requests, Start(c, r)
      PROVE  Inv'
  BY <1>2, StartInv
<1>3. ASSUME NEW c \in Calls, CallStep(c) \/ MkdirFails(c) \/ WriteFails(c)
      PROVE  Inv'
  BY <1>3, OpenTmpInv, WriteHalfInv, ReplaceInv, OtherStepsInv DEF CallStep
<1>4. CASE Crash
  BY <1>4, CrashInv
<1>5. CASE UNCHANGED vars
  BY <1>5 DEF vars, Inv, TypeOK, OnePathPerInode, Home, WritersKnowTheirPath,
              ContentsFitTheirPath
<1> QED
  BY <1>1, <1>2, <1>3, <1>4, <1>5 DEF Next

-----------------------------------------------------------------------------
\* The invariant of the experiment tools: every reference to an inode is from
\* the path it was created for, and holds records of that path only.
THEOREM ExperimentsInvariance == Spec => []Inv
  BY InitInv, StepInv, PTL DEF Spec

\* Every variable of the experiment tools keeps its type.
THEOREM ExperimentsTypeCorrect == Spec => []TypeOK
<1>1. Inv => TypeOK
  BY DEF Inv
<1> QED
  BY <1>1, ExperimentsInvariance, PTL

\* A record lies at the path its frontmatter names, through shared siblings,
\* late writes to renamed inodes, failures and crashes (tools.py:839-846).
THEOREM RecordsAlwaysLieWhereTheySay == Spec => []RecordsLieWhereTheySay
<1>1. ASSUME Inv PROVE RecordsLieWhereTheySay
  <2> SUFFICES ASSUME NEW p \in Paths, NEW h \in Halves, file[p] # None,
                      p.name.fmt = "micro", data[file[p]][h] # None
               PROVE  data[file[p]][h].pid = p.pid /\ data[file[p]][h].at = p.name.at
    BY DEF RecordsLieWhereTheySay
  <2>1. file[p] \in Inodes /\ Home(file[p]) = p
    BY <1>1 DEF Inv, TypeOK, OnePathPerInode
  <2>2. CASE file[p] \in Calls
    BY <1>1, <2>1, <2>2 DEF Home, Inv, ContentsFitTheirPath
  <2>3. CASE file[p] \notin Calls
    BY <1>1, <2>1, <2>3 DEF Home, Inv, ContentsFitTheirPath
  <2> QED
    BY <2>2, <2>3
<1> QED
  BY <1>1, ExperimentsInvariance, PTL

\* A step changes the files of the path of the call that takes it, if any.
LEMMA OthersKept ==
  ASSUME Inv, [Next]_vars, NEW p \in Paths, p.name.fmt # "micro"
  PROVE  file'[p] = file[p] /\ (file[p] # None => data'[file[p]] = data[file[p]])
<1>1. CASE UNCHANGED <<file, data>>
  BY <1>1
<1>2. ASSUME NEW c \in Calls, OpenTmp(c)
      PROVE  file'[p] = file[p] /\ (file[p] # None => data'[file[p]] = data[file[p]])
  <2>1. pc[c] = "open" /\ path[c] \in Paths /\ path[c].name.fmt = "micro"
    BY <1>2 DEF OpenTmp, Inv, WritersKnowTheirPath
  <2>2. PICK i \in Inodes : /\ data' = [data EXCEPT ![i] = Blank] /\ file' = file
                            /\ i \in Calls /\ path[i] = path[c]
    BY <1>2, <2>1, Apart DEF OpenTmp, Sibling, Inodes, Inv, OnePathPerInode
  <2>3. file[p] # None => file[p] # i
    BY <2>1, <2>2 DEF Inv, OnePathPerInode, Home
  <2> QED
    BY <2>2, <2>3 DEF Inv, TypeOK
<1>3. ASSUME NEW c \in Calls, WriteHead(c) \/ WriteTail(c)
      PROVE  file'[p] = file[p] /\ (file[p] # None => data'[file[p]] = data[file[p]])
  <2>1. /\ pc[c] \in Writing /\ file' = file
        /\ \A j \in Inodes \ {fd[c]} : data'[j] = data[j]
    BY <1>3 DEF WriteHead, WriteTail, WriteHalf, Writing, Inv, TypeOK
  <2>2. /\ path[c] \in Paths /\ path[c].name.fmt = "micro"
        /\ fd[c] \in Calls /\ path[fd[c]] = path[c]
    BY <2>1 DEF Inv, WritersKnowTheirPath, OnePathPerInode
  <2>3. file[p] # None => file[p] \in Inodes \ {fd[c]}
    BY <2>2 DEF Inv, TypeOK, OnePathPerInode, Home
  <2> QED
    BY <2>1, <2>3
<1>4. ASSUME NEW c \in Calls, Replace(c)
      PROVE  file'[p] = file[p] /\ data' = data
  <2>1. /\ pc[c] = "replace" /\ data' = data
        /\ \/ file' = file
           \/ file' = [file EXCEPT ![path[c]] = tmp[path[c]]]
    BY <1>4 DEF Replace, Sibling
  <2>2. path[c].name.fmt = "micro"
    BY <2>1 DEF Inv, WritersKnowTheirPath, Writing
  <2> QED
    BY <2>1, <2>2 DEF Inv, TypeOK
<1>5. ASSUME NEW c \in Calls, NEW r \in Requests, Start(c, r)
      PROVE  UNCHANGED <<file, data>>
  BY <1>5 DEF Start, Reject, StartWrite, StartRead, StartList, Begin
<1>6. ASSUME NEW c \in Calls,
             \/ Parse(c) \/ (\E pid \in Pids : Scan(c, pid)) \/ ScanDone(c)
             \/ CleanUp(c) \/ MkdirFails(c) \/ WriteFails(c)
      PROVE  UNCHANGED <<file, data>>
  BY <1>6 DEF Parse, Scan, ScanDone, CleanUp, MkdirFails, WriteFails
<1>7. CASE Bootstrap \/ Crash \/ UNCHANGED vars
  BY <1>1, <1>7 DEF Bootstrap, Crash, vars
<1> QED
  BY <1>1, <1>2, <1>3, <1>4, <1>5, <1>6, <1>7 DEF Next, CallStep

\* Records of v0.1.0 are never written to, whatever runs of the same second do
\* (tools.py:723-726).
THEOREM LegacyStaysAsItIs == Spec => LegacyIsNeverWritten
<1>1. ASSUME Inv, [Next]_vars
      PROVE  [\A p \in Paths : p.name.fmt # "micro" => LogBar'[p] = LogBar[p]]_vars
  <2> SUFFICES ASSUME NEW p \in Paths, p.name.fmt # "micro"
               PROVE  RecordAt(p)' = RecordAt(p)
    BY DEF LogBar
  <2>1. file'[p] = file[p] /\ (file[p] # None => data'[file[p]] = data[file[p]])
    BY <1>1, OthersKept
  <2> QED
    BY <2>1 DEF RecordAt, Whole
<1> QED
  BY <1>1, ExperimentsInvariance, PTL DEF Spec, LegacyIsNeverWritten

-----------------------------------------------------------------------------
(* What listings and writes answer: files are never taken away, so what a   *)
(* call has seen is still there when it answers.                            *)

Wanted(c) == {p \in before[c] : req[c].pid \in {None, p.pid}}

\* A listing has seen every file it was to see, except in directories it has
\* yet to scan; a write that was answered has a file.
Seen(c) ==
  /\ pc[c] \notin {"cleanup", "done", "lost"} => result[c].is = "none"
  /\ pc[c] # "done" => result[c].is # "ok"
  /\ pc[c] = "parse" => req[c].op = "read_experiment"
  /\ before[c] \subseteq Present
  /\ listed[c] \subseteq Present
  /\ pc[c] = "scan" =>
       /\ req[c].op = "list_experiments"
       /\ \A p \in Wanted(c) : p \in listed[c] \/ p.pid \in todo[c]
  /\ result[c].is = "ok" =>
       /\ req[c].op = "list_experiments" => Wanted(c) \subseteq listed[c]
       /\ req[c].op = "write_experiment" =>
            path[c] \in Present /\ path[c].name.fmt = "micro"

SeenInv == Inv /\ \A c \in Calls : Seen(c)

\* No step takes a file away.
LEMMA FilesStay ==
  ASSUME Inv, [Next]_vars
  PROVE  Present \subseteq Present'
<1>1. ASSUME NEW c \in Calls, Replace(c) PROVE Present \subseteq Present'
  <2>1. path[c] \in Paths
    BY <1>1 DEF Replace, Inv, WritersKnowTheirPath, Writing
  <2> QED
    BY <1>1, <2>1 DEF Replace, Sibling, Present, Inv, TypeOK
<1>2. CASE UNCHANGED file
  BY <1>2 DEF Present
<1>3. ASSUME NEW c \in Calls, NEW r \in Requests, Start(c, r) PROVE UNCHANGED file
  BY <1>3 DEF Start, Reject, StartWrite, StartRead, StartList, Begin
<1>4. ASSUME NEW c \in Calls,
             \/ OpenTmp(c) \/ WriteHead(c) \/ WriteTail(c) \/ Parse(c)
             \/ (\E pid \in Pids : Scan(c, pid)) \/ ScanDone(c)
             \/ CleanUp(c) \/ MkdirFails(c) \/ WriteFails(c)
      PROVE  UNCHANGED file
  BY <1>4 DEF OpenTmp, WriteHead, WriteTail, WriteHalf, Parse, Scan, ScanDone, CleanUp,
              MkdirFails, WriteFails
<1>5. CASE Bootstrap \/ Crash \/ UNCHANGED vars
  BY <1>2, <1>5 DEF Bootstrap, Crash, vars
<1> QED
  BY <1>1, <1>2, <1>3, <1>4, <1>5 DEF Next, CallStep

\* A call that takes no step has seen what it has seen, restarts included.
LEMMA SeenIsKept ==
  ASSUME NEW d \in Calls, Seen(d), Present \subseteq Present',
         pc'[d] = pc[d] \/ (pc'[d] = "lost" /\ pc[d] # "done"),
         req'[d] = req[d], path'[d] = path[d], result'[d] = result[d],
         before'[d] = before[d], todo'[d] = todo[d], listed'[d] = listed[d]
  PROVE  Seen(d)'
<1>1. Wanted(d)' = Wanted(d)
  BY DEF Wanted
<1> QED
  BY <1>1 DEF Seen

\* A call starts having seen nothing.
LEMMA StartSeen ==
  ASSUME SeenInv, NEW d \in Calls, NEW r \in Requests, Start(d, r)
  PROVE  Seen(d)'
<1>1. /\ pc[d] = "idle" /\ req'[d] = r /\ UNCHANGED <<file, listed>>
      /\ before'[d] = Present /\ Present' = Present
      /\ result[d].is = "none" /\ listed[d] \subseteq Present
  BY DEF Start, Reject, StartWrite, StartRead, StartList, Begin, SeenInv, Seen, Inv, TypeOK,
         Present
<1>2. CASE Reject(d, r)
  <2>1. pc'[d] = "done" /\ result'[d].is # "ok"
    BY <1>2 DEF Reject, Answer, Say, Goto, SeenInv, Inv, TypeOK
  <2> QED
    BY <1>1, <2>1 DEF Seen
<1>3. CASE StartWrite(d, r)
  <2>1. pc'[d] = "open" /\ result'[d].is = "none"
    BY <1>1, <1>3 DEF StartWrite, Goto, SeenInv, Inv, TypeOK
  <2> QED
    BY <1>1, <2>1 DEF Seen
<1>4. CASE StartRead(d, r)
  <2>1. /\ r.op = "read_experiment"
        /\ \/ pc'[d] = "done" /\ result'[d].is = "not_found"
           \/ pc'[d] = "parse" /\ result'[d].is = "none"
    BY <1>1, <1>4 DEF StartRead, Answer, Say, Goto, SeenInv, Inv, TypeOK
  <2> QED
    BY <1>1, <2>1 DEF Seen
<1>5. CASE StartList(d, r)
  <2>1. /\ pc'[d] = "scan" /\ result'[d].is = "none" /\ r.op = "list_experiments"
        /\ todo'[d] = IF r.pid = None THEN Pids ELSE {r.pid}
    BY <1>1, <1>5 DEF StartList, Goto, SeenInv, Inv, TypeOK
  <2>2. \A p \in Paths : p.pid \in Pids
    BY DEF Paths
  <2>3. \A p \in Wanted(d)' : p.pid \in todo'[d]
    BY <1>1, <2>1, <2>2 DEF Wanted, Present
  <2> QED
    BY <1>1, <2>1, <2>3 DEF Seen
<1> QED
  BY <1>2, <1>3, <1>4, <1>5 DEF Start

\* A step of a call keeps what it has seen, and its answer is about that.
LEMMA GoOnSeen ==
  ASSUME SeenInv, Present \subseteq Present', NEW d \in Calls,
         CallStep(d) \/ MkdirFails(d) \/ WriteFails(d)
  PROVE  Seen(d)'
<1>0. /\ Seen(d) /\ UNCHANGED <<req, path, before>>
      /\ d \in DOMAIN pc /\ d \in DOMAIN result
  BY DEF SeenInv, Inv, TypeOK, CallStep, OpenTmp, WriteHead, WriteTail, WriteHalf, Replace,
         Parse, Scan, ScanDone, CleanUp, MkdirFails, WriteFails
<1>1. Wanted(d)' = Wanted(d)
  BY <1>0 DEF Wanted
<1>2. before'[d] \subseteq Present' /\ listed[d] \subseteq Present'
  BY <1>0 DEF Seen
<1>3. CASE OpenTmp(d) \/ WriteHead(d) \/ WriteTail(d)
  <2>1. pc'[d] \in Writing /\ result'[d].is = "none" /\ listed' = listed
    BY <1>0, <1>3 DEF OpenTmp, WriteHead, WriteTail, WriteHalf, Goto, AfterHead, AfterTail,
                      Writing, Seen
  <2> QED
    BY <1>2, <2>1 DEF Seen, Writing
<1>4. CASE Replace(d)
  <2>1. /\ path[d] \in Paths /\ path[d].name.fmt = "micro"
        /\ req[d].op = "write_experiment"
    BY <1>4 DEF Replace, SeenInv, Inv, WritersKnowTheirPath, Writing
  <2>2. /\ listed' = listed
        /\ \/ pc'[d] = "done" /\ tmp[path[d]] # None
           \/ pc'[d] = "cleanup" /\ result'[d].is = "tool_error"
    BY <1>0, <1>4 DEF Replace, Answer, Raise, Say, Goto, Sibling
  <2>3. result'[d].is = "ok" => path[d] \in Present'
    <3>1. CASE tmp[path[d]] = None
      BY <1>0, <1>4, <3>1 DEF Replace, Raise, Say, Sibling
    <3>2. CASE tmp[path[d]] # None
      BY <1>4, <2>1, <3>2 DEF Replace, Sibling, Present, SeenInv, Inv, TypeOK
    <3> QED
      BY <3>1, <3>2
  <2> QED
    BY <1>0, <1>2, <2>1, <2>2, <2>3 DEF Seen
<1>5. CASE Parse(d)
  <2>1. pc'[d] = "done" /\ listed' = listed /\ req[d].op = "read_experiment"
    BY <1>0, <1>5 DEF Parse, Answer, Say, Goto, Seen
  <2> QED
    BY <1>0, <1>2, <2>1 DEF Seen
<1>6. ASSUME NEW pid \in Pids, Scan(d, pid) PROVE Seen(d)'
  <2>1. /\ pc[d] = "scan" /\ UNCHANGED <<pc, result, file>>
        /\ todo'[d] = todo[d] \ {pid} /\ listed'[d] = listed[d] \cup InDir(pid)
    BY <1>6 DEF Scan, SeenInv, Inv, TypeOK
  <2>2. InDir(pid) \subseteq Present'
    BY <2>1 DEF InDir, Present
  <2>3. \A p \in Wanted(d) : p \in listed'[d] \/ p.pid \in todo'[d]
    BY <1>0, <2>1 DEF Seen, Wanted, InDir
  <2> QED
    BY <1>0, <1>1, <1>2, <2>1, <2>2, <2>3 DEF Seen
<1>7. CASE ScanDone(d)
  <2>1. /\ pc'[d] = "done" /\ listed' = listed
        /\ req[d].op = "list_experiments" /\ Wanted(d) \subseteq listed[d]
    BY <1>0, <1>7 DEF ScanDone, Answer, Say, Goto, Seen
  <2> QED
    BY <1>0, <1>1, <1>2, <2>1 DEF Seen
<1>8. CASE MkdirFails(d) \/ WriteFails(d)
  <2>1. pc'[d] \in {"cleanup", "done"} /\ listed' = listed /\ result'[d].is # "ok"
    BY <1>0, <1>8 DEF MkdirFails, WriteFails, Answer, Raise, Say, Goto
  <2> QED
    BY <1>0, <1>2, <2>1 DEF Seen
<1>9. CASE CleanUp(d)
  <2>1. pc'[d] = "done" /\ UNCHANGED <<listed, result>> /\ result[d].is # "ok"
    BY <1>0, <1>9 DEF CleanUp, Goto, Seen
  <2> QED
    BY <1>0, <1>2, <2>1 DEF Seen
<1> QED
  BY <1>3, <1>4, <1>5, <1>6, <1>7, <1>8, <1>9 DEF CallStep

\* Every step keeps what calls have seen.
LEMMA StepSeenInv == SeenInv /\ [Next]_vars => SeenInv'
<1> SUFFICES ASSUME SeenInv, [Next]_vars PROVE SeenInv'
  OBVIOUS
<1>1. Inv' /\ Present \subseteq Present'
  BY StepInv, FilesStay DEF SeenInv
<1>2. ASSUME NEW d \in Calls PROVE Seen(d)'
  <2>1. CASE Bootstrap \/ UNCHANGED vars
    BY <1>1, <2>1, SeenIsKept DEF Bootstrap, vars, SeenInv
  <2>2. CASE Crash
    <3>1. pc'[d] = pc[d] \/ (pc'[d] = "lost" /\ pc[d] # "done")
      BY <2>2 DEF Crash
    <3> QED
      BY <1>1, <2>2, <3>1, SeenIsKept DEF Crash, SeenInv
  <2>3. ASSUME NEW c \in Calls, c # d,
               \/ \E r \in Requests : Start(c, r)
               \/ CallStep(c) \/ MkdirFails(c) \/ WriteFails(c)
        PROVE  Seen(d)'
    <3>1. /\ pc'[d] = pc[d] /\ req'[d] = req[d] /\ path'[d] = path[d]
          /\ result'[d] = result[d] /\ before'[d] = before[d]
          /\ todo'[d] = todo[d] /\ listed'[d] = listed[d]
      BY <2>3 DEF Start, Reject, StartWrite, StartRead, StartList, Begin, CallStep, OpenTmp,
                  WriteHead, WriteTail, WriteHalf, Replace, Parse, Scan, ScanDone,
                  CleanUp, MkdirFails, WriteFails, Answer, Raise, Say, Goto, SeenInv, Inv,
                  TypeOK
    <3> QED
      BY <1>1, <3>1, SeenIsKept DEF SeenInv
  <2>4. ASSUME NEW r \in Requests, Start(d, r) PROVE Seen(d)'
    BY <2>4, StartSeen
  <2>5. CASE CallStep(d) \/ MkdirFails(d) \/ WriteFails(d)
    BY <1>1, <2>5, GoOnSeen
  <2> QED
    BY <2>1, <2>2, <2>3, <2>4, <2>5 DEF Next
<1> QED
  BY <1>1, <1>2 DEF SeenInv

\* Initially no call has seen anything.
LEMMA InitSeenInv == Init => SeenInv
  BY InitInv DEF Init, SeenInv, Seen, Nothing

\* A listing misses no run that had a file when it started, in any format, and
\* shows none that has no file (tools.py:956-986).
THEOREM ListingsAreAlwaysComplete == Spec => []ListingIsComplete
<1>1. SeenInv => ListingIsComplete
  BY DEF SeenInv, Seen, ListingIsComplete, Wanted
<1> QED
  BY <1>1, InitSeenInv, StepSeenInv, PTL DEF Spec

-----------------------------------------------------------------------------
(* What reads answer: the path is chosen when the read starts, and nobody  *)
(* ever puts a record of another run there.                                *)

Asked(c) == Utc[req[c].at]

OfTheRun(c, d) ==
  /\ d.pid = req[c].pid
  /\ Second[d.at] = Second[Asked(c)]
  /\ Micro(req[c].pid, Asked(c)) \in before[c] => d.at = Asked(c)

\* A read is on its way to the run asked for, or to the one of v0.1.0 of the
\* same second if there was no other; what it has answered is of that run.
ReadsTheRunAsked(c) ==
  /\ pc[c] = "parse" =>
       \/ path[c] = Micro(req[c].pid, Asked(c))
       \/ /\ path[c] = Legacy(req[c].pid, Asked(c))
          /\ Micro(req[c].pid, Asked(c)) \notin before[c]
  /\ pc[c] = "done" /\ req[c].op = "read_experiment" /\ result[c].is = "ok"
       /\ result[c].doc # Garbled
     => OfTheRun(c, result[c].doc)

\* A file of v0.1.0 holds a record of the second it is named after.
LegacyFits ==
  \A p \in Paths, h \in Halves :
    p.name.fmt = "legacy" /\ file[p] # None /\ data[file[p]][h] # None =>
      data[file[p]][h].pid = p.pid /\ Second[data[file[p]][h].at] = p.name.at

ReadInv == SeenInv /\ LegacyFits /\ \A c \in Calls : ReadsTheRunAsked(c)

\* The invariant holds initially: the records of v0.1.0 are where they belong.
LEMMA InitReadInv == Init => ReadInv
<1> SUFFICES ASSUME Init PROVE ReadInv
  OBVIOUS
<1>1. PICK runs \in FirstRuns :
        /\ file = [p \in Paths |-> IF runs[p] = None THEN None ELSE p]
        /\ data = [i \in Inodes |-> IF i \in Paths THEN WholeOf(runs[i]) ELSE Blank]
  BY DEF Init
<1>2. \A p \in Paths : p.name.fmt = "legacy" /\ runs[p] # None =>
        runs[p].pid = p.pid /\ Second[runs[p].at] = p.name.at
  BY ExperimentsAssumption, Zenon
<1>3. LegacyFits
  <2>1. \A p \in Paths, h \in Halves : file[p] # None => data[file[p]][h] = runs[p]
    BY <1>1 DEF Inodes, WholeOf
  <2> QED
    BY <1>2, <2>1 DEF LegacyFits
<1>4. \A c \in Calls : ReadsTheRunAsked(c)
  BY DEF Init, ReadsTheRunAsked
<1> QED
  BY <1>3, <1>4, InitSeenInv DEF ReadInv

\* The records of v0.1.0 stay what they are.
LEMMA LegacyFitsKept ==
  ASSUME ReadInv, [Next]_vars
  PROVE  LegacyFits'
<1> SUFFICES ASSUME NEW p \in Paths, NEW h \in Halves, p.name.fmt = "legacy",
                    file'[p] # None, data'[file'[p]][h] # None
             PROVE  data'[file'[p]][h].pid = p.pid /\ Second[data'[file'[p]][h].at] = p.name.at
  BY DEF LegacyFits
<1>1. file'[p] = file[p] /\ (file[p] # None => data'[file[p]] = data[file[p]])
  BY OthersKept DEF ReadInv, SeenInv
<1> QED
  BY <1>1 DEF ReadInv, LegacyFits

\* A call that starts has chosen the path by what is there.
LEMMA StartReadsTheRun ==
  ASSUME ReadInv, NEW c \in Calls, NEW r \in Requests, Start(c, r)
  PROVE  ReadsTheRunAsked(c)'
<1>1. req'[c] = r /\ before'[c] = Present
  BY DEF Start, Reject, StartWrite, StartRead, StartList, Begin, ReadInv, SeenInv, Inv, TypeOK
<1>2. CASE Reject(c, r) \/ StartWrite(c, r) \/ StartList(c, r)
  <2>1. \/ pc'[c] = "done" /\ result'[c].is # "ok"
        \/ pc'[c] \in {"open", "scan"}
    BY <1>2 DEF Reject, StartWrite, StartList, Answer, Say, Goto, ReadInv, SeenInv, Inv, TypeOK
  <2> QED
    BY <2>1 DEF ReadsTheRunAsked
<1>3. CASE StartRead(c, r)
  <2> DEFINE p == Found(Present, r.pid, Utc[r.at])
  <2>1. \/ pc'[c] = "done" /\ result'[c].is # "ok"
        \/ pc'[c] = "parse" /\ path'[c] = p /\ p # None
    BY <1>3 DEF StartRead, Answer, Say, Goto, ReadInv, SeenInv, Inv, TypeOK
  <2>2. p # None => \/ p = Micro(r.pid, Utc[r.at])
                    \/ p = Legacy(r.pid, Utc[r.at]) /\ Micro(r.pid, Utc[r.at]) \notin Present
    BY DEF Found
  <2> HIDE DEF p
  <2> QED
    BY <1>1, <2>1, <2>2 DEF ReadsTheRunAsked, Asked
<1> QED
  BY <1>2, <1>3 DEF Start

\* What a file holds belongs to its path.
LEMMA FilesFit ==
  ASSUME ReadInv, NEW p \in Paths, file[p] # None, NEW h \in Halves, data[file[p]][h] # None
  PROVE  /\ p.name.fmt = "micro" =>
              data[file[p]][h].pid = p.pid /\ data[file[p]][h].at = p.name.at
         /\ p.name.fmt = "legacy" =>
              data[file[p]][h].pid = p.pid /\ Second[data[file[p]][h].at] = p.name.at
<1>1. file[p] \in Inodes /\ Home(file[p]) = p
  BY DEF ReadInv, SeenInv, Inv, TypeOK, OnePathPerInode
<1>2. CASE file[p] \in Calls
  BY <1>1, <1>2 DEF Home, ReadInv, SeenInv, Inv, ContentsFitTheirPath, LegacyFits
<1>3. CASE file[p] \notin Calls
  BY <1>1, <1>3 DEF Home, ReadInv, SeenInv, Inv, ContentsFitTheirPath, LegacyFits
<1> QED
  BY <1>2, <1>3

\* A read answers a record of the path it chose.
LEMMA ParseReadsTheRun ==
  ASSUME ReadInv, NEW c \in Calls, Parse(c)
  PROVE  ReadsTheRunAsked(c)'
<1> DEFINE p == path[c]
<1>1. /\ pc[c] = "parse" /\ pc'[c] = "done" /\ UNCHANGED <<req, before>>
      /\ p \in Paths /\ file[p] # None /\ req[c].op = "read_experiment"
      /\ \/ Whole(file[p]) /\ result'[c].doc = data[file[p]][1]
         \/ result'[c].is = "parse_error" \/ result'[c].doc = Garbled
  BY DEF Parse, Answer, Say, Goto, ReadInv, SeenInv, Seen, Inv, TypeOK, WritersKnowTheirPath
<1>2. CASE ~Whole(file[p]) \/ result'[c].is = "parse_error" \/ result'[c].doc = Garbled
  BY <1>1, <1>2 DEF ReadsTheRunAsked
<1>3. CASE Whole(file[p]) /\ result'[c].doc = data[file[p]][1]
  <2> DEFINE d == data[file[p]][1]
  <2>1. d # None
    BY <1>3, Apart DEF Whole, WholeOf, Halves
  <2>2. /\ p.name.fmt = "micro" => d.pid = p.pid /\ d.at = p.name.at
        /\ p.name.fmt = "legacy" => d.pid = p.pid /\ Second[d.at] = p.name.at
    BY <1>1, <2>1, FilesFit DEF Halves
  <2>3. \/ p = Micro(req[c].pid, Asked(c))
        \/ p = Legacy(req[c].pid, Asked(c)) /\ Micro(req[c].pid, Asked(c)) \notin before[c]
    BY <1>1 DEF ReadInv, ReadsTheRunAsked
  <2> HIDE DEF d, p
  <2>4. OfTheRun(c, d)
    BY <2>2, <2>3 DEF OfTheRun, Micro, Legacy
  <2>5. /\ req'[c] = req[c] /\ before'[c] = before[c] /\ pc'[c] = "done"
        /\ result'[c].doc = d
    BY <1>1, <1>3 DEF d
  <2> QED
    BY <2>4, <2>5 DEF ReadsTheRunAsked, OfTheRun, Asked, Micro
<1> QED
  BY <1>1, <1>2, <1>3

\* A step that is not a read's own.
LEMMA NoRead ==
  ASSUME NEW c \in Calls, ReadsTheRunAsked(c), UNCHANGED <<req, path, before>>,
         \/ pc'[c] = pc[c] /\ result'[c] = result[c]
         \/ pc'[c] # "parse" /\ ~(pc'[c] = "done" /\ req[c].op = "read_experiment"
                                    /\ result'[c].is = "ok")
  PROVE  ReadsTheRunAsked(c)'
  BY DEF ReadsTheRunAsked, OfTheRun, Asked, Micro, Legacy

\* A step of a call that reads no record.
LEMMA OtherStepsRead ==
  ASSUME ReadInv, NEW c \in Calls,
         \/ OpenTmp(c) \/ WriteHead(c) \/ WriteTail(c) \/ Replace(c) \/ CleanUp(c)
         \/ (\E pid \in Pids : Scan(c, pid)) \/ ScanDone(c)
         \/ MkdirFails(c) \/ WriteFails(c)
  PROVE  ReadsTheRunAsked(c)'
<1>1. UNCHANGED <<req, path, before>>
  BY DEF OpenTmp, WriteHead, WriteTail, WriteHalf, Replace, CleanUp, Scan, ScanDone,
         MkdirFails, WriteFails
<1>2. c \in DOMAIN pc /\ c \in DOMAIN result /\ Seen(c)
  BY DEF ReadInv, SeenInv, Inv, TypeOK
<1>3. CASE OpenTmp(c) \/ WriteHead(c) \/ WriteTail(c)
  <2>1. pc'[c] \in Writing
    BY <1>2, <1>3 DEF OpenTmp, WriteHead, WriteTail, WriteHalf, Goto, AfterHead, AfterTail,
                      Writing
  <2> QED
    BY <1>1, <2>1, NoRead DEF ReadInv, Writing
<1>4. CASE Replace(c)
  <2>1. req[c].op = "write_experiment" /\ pc'[c] \in {"done", "cleanup"}
    BY <1>2, <1>4 DEF Replace, Answer, Raise, Goto, ReadInv, SeenInv, Inv,
                      WritersKnowTheirPath, Writing
  <2> QED
    BY <1>1, <2>1, NoRead DEF ReadInv
<1>5. CASE CleanUp(c)
  <2>1. pc'[c] = "done" /\ result'[c] = result[c] /\ result[c].is # "ok"
    BY <1>2, <1>5 DEF CleanUp, Goto, Seen
  <2> QED
    BY <1>1, <2>1, NoRead DEF ReadInv
<1>6. CASE \E pid \in Pids : Scan(c, pid)
  BY <1>1, <1>6, NoRead DEF Scan, ReadInv
<1>7. CASE ScanDone(c)
  <2>1. pc'[c] = "done" /\ req[c].op = "list_experiments"
    BY <1>2, <1>7 DEF ScanDone, Answer, Goto, Seen
  <2> QED
    BY <1>1, <2>1, NoRead DEF ReadInv
<1>8. CASE MkdirFails(c) \/ WriteFails(c)
  <2>1. pc'[c] \in {"done", "cleanup"} /\ result'[c].is = "tool_error"
    BY <1>2, <1>8 DEF MkdirFails, WriteFails, Answer, Raise, Say, Goto
  <2> QED
    BY <1>1, <2>1, NoRead DEF ReadInv
<1> QED
  BY <1>3, <1>4, <1>5, <1>6, <1>7, <1>8

\* Every step keeps reads at their runs.
LEMMA StepReadInv == ReadInv /\ [Next]_vars => ReadInv'
<1> SUFFICES ASSUME ReadInv, [Next]_vars PROVE ReadInv'
  OBVIOUS
<1>1. SeenInv' /\ LegacyFits'
  BY StepSeenInv, LegacyFitsKept DEF ReadInv
<1>2. ASSUME NEW d \in Calls PROVE ReadsTheRunAsked(d)'
  <2>1. CASE Bootstrap \/ UNCHANGED vars
    BY <2>1, NoRead DEF Bootstrap, vars, ReadInv
  <2>2. CASE Crash
    <3>1. (pc'[d] = pc[d] /\ result'[d] = result[d]) \/ pc'[d] = "lost"
      BY <2>2 DEF Crash
    <3> QED
      BY <2>2, <3>1, NoRead DEF Crash, ReadInv
  <2>3. ASSUME NEW c \in Calls, c # d,
               \/ \E r \in Requests : Start(c, r)
               \/ CallStep(c) \/ MkdirFails(c) \/ WriteFails(c)
        PROVE  ReadsTheRunAsked(d)'
    <3>1. /\ pc'[d] = pc[d] /\ req'[d] = req[d] /\ path'[d] = path[d]
          /\ result'[d] = result[d] /\ before'[d] = before[d]
      BY <2>3 DEF Start, Reject, StartWrite, StartRead, StartList, Begin, CallStep, OpenTmp,
                  WriteHead, WriteTail, WriteHalf, Replace, Parse, Scan, ScanDone,
                  CleanUp, MkdirFails, WriteFails, Answer, Raise, Say, Goto, ReadInv, SeenInv,
                  Inv, TypeOK
    <3> QED
      BY <3>1 DEF ReadInv, ReadsTheRunAsked, OfTheRun, Asked
  <2>4. ASSUME NEW r \in Requests, Start(d, r) PROVE ReadsTheRunAsked(d)'
    BY <2>4, StartReadsTheRun
  <2>5. CASE CallStep(d) \/ MkdirFails(d) \/ WriteFails(d)
    BY <2>5, ParseReadsTheRun, OtherStepsRead DEF CallStep
  <2> QED
    BY <2>1, <2>2, <2>3, <2>4, <2>5 DEF Next
<1> QED
  BY <1>1, <1>2 DEF ReadInv

\* What read_experiment answers is of the run asked for: the very run when it
\* had a file of its own as the read started, and one of v0.1.0 of the same
\* second otherwise (tools.py:777-793, 898-931).
THEOREM ReadsAlwaysAnswerTheRunAsked == Spec => []ReadAnswersTheRunAsked
<1>1. ReadInv => ReadAnswersTheRunAsked
  BY DEF ReadInv, ReadsTheRunAsked, OfTheRun, Asked, ReadAnswersTheRunAsked
<1> QED
  BY <1>1, InitReadInv, StepReadInv, PTL DEF Spec

-----------------------------------------------------------------------------
(* The experiment tools implement the log of records, for any calls,       *)
(* requests, timestamps and notebooks.  The argument needs to know that an *)
(* inode is never both a sibling and a record, and that a writer that met  *)
(* no other has its sibling to itself.                                     *)


\* What a call has answered, and the kind of call it is, by where it is.
CallsAreTyped ==
  \A c \in Calls :
    /\ pc[c] = "idle" => path[c] = None
    /\ pc[c] \in {"idle", "open", "parse", "scan"} \cup Writing => result[c].is = "none"
    /\ pc[c] = "parse" => /\ req[c].op = "read_experiment"
                          /\ path[c].name.fmt \in {"micro", "legacy"}
    /\ pc[c] = "scan" => path[c] = None /\ req[c].op = "list_experiments"

\* A sibling is not yet a record.
SiblingsAreNoRecords == \A p \in Paths : tmp[p] # None => tmp[p] # file[p]

\* Two calls that write to one path know that they overlap.
RivalsOverlap ==
  \A c, d \in Calls :
    c # d /\ {pc[c], pc[d]} \subseteq Writing /\ path[c] = path[d] =>
      {c, d} \subseteq overlapped

\* What a writer that met no other has written so far is its record, and it is
\* in the sibling unless that is gone.
AloneIsWhole ==
  \A c \in Calls : pc[c] \in Writing /\ c \notin overlapped =>
    /\ tmp[path[c]] \in {None, fd[c]}
    /\ file[path[c]] # fd[c]
    /\ pc[c] = "tail" => data[fd[c]][1] = Stored(c)
    /\ pc[c] = "replace" => data[fd[c]] = WholeOf(Stored(c))

LogInv ==
  /\ Inv
  /\ CallsAreTyped
  /\ SiblingsAreNoRecords
  /\ RivalsOverlap
  /\ AloneIsWhole

-----------------------------------------------------------------------------
\* The invariant holds initially.
LEMMA InitLogInv == Init => LogInv
  BY InitInv DEF Init, LogInv, CallsAreTyped, SiblingsAreNoRecords, RivalsOverlap,
                 AloneIsWhole, Writing, Nothing

\* A call that does not write leaves the writers as they are.
LEMMA WritersKept ==
  ASSUME LogInv, NEW c \in Calls, pc[c] \notin Writing,
         UNCHANGED <<file, data, overlapped>>,
         \A d \in Calls \ {c} : pc'[d] = pc[d] /\ path'[d] = path[d] /\ req'[d] = req[d]
                                /\ fd'[d] = fd[d],
         pc'[c] \notin Writing,
         \A p \in Paths : tmp'[p] \in {None, tmp[p]}
  PROVE  SiblingsAreNoRecords' /\ RivalsOverlap' /\ AloneIsWhole'
<1>1. \A d \in Calls : pc'[d] \in Writing => d # c
  OBVIOUS
<1>2. SiblingsAreNoRecords'
  BY DEF LogInv, SiblingsAreNoRecords
<1>3. RivalsOverlap'
  BY <1>1 DEF LogInv, RivalsOverlap
<1>4. AloneIsWhole'
  <2> SUFFICES ASSUME NEW d \in Calls, pc'[d] \in Writing, d \notin overlapped
               PROVE  /\ tmp'[path'[d]] \in {None, fd'[d]}
                      /\ file[path'[d]] # fd'[d]
                      /\ pc'[d] = "tail" => data[fd'[d]][1] = Stored(d)'
                      /\ pc'[d] = "replace" => data[fd'[d]] = WholeOf(Stored(d)')
    BY DEF AloneIsWhole, WholeOf
  <2>1. /\ d # c /\ pc'[d] = pc[d] /\ path'[d] = path[d] /\ req'[d] = req[d] /\ fd'[d] = fd[d]
        /\ Stored(d)' = Stored(d)
    BY <1>1 DEF Stored
  <2>2. path[d] \in Paths
    BY <2>1 DEF LogInv, Inv, WritersKnowTheirPath
  <2> QED
    BY <2>1, <2>2 DEF LogInv, AloneIsWhole
<1> QED
  BY <1>2, <1>3, <1>4

\* A call that starts is typed by what it asks for.
LEMMA StartLogInv ==
  ASSUME LogInv, NEW c \in Calls, NEW r \in Requests, Start(c, r)
  PROVE  LogInv'
<1>1. Inv'
  BY StartInv DEF LogInv
<1>2. /\ pc[c] = "idle" /\ req' = [req EXCEPT ![c] = r]
      /\ UNCHANGED <<file, tmp, data, fd, overlapped>>
  BY DEF Start, Reject, StartWrite, StartRead, StartList, Begin
<1>3. \A d \in Calls \ {c} : pc'[d] = pc[d] /\ path'[d] = path[d] /\ req'[d] = req[d]
                              /\ result'[d] = result[d]
  BY <1>2 DEF Start, Reject, StartWrite, StartRead, StartList, Answer, Say, Goto, LogInv, Inv,
              TypeOK
<1>4. /\ pc'[c] \in {"open", "parse", "scan", "done"}
      /\ pc'[c] # "done" => result'[c] = result[c]
      /\ pc'[c] = "parse" => /\ r.op = "read_experiment"
                             /\ path'[c].name.fmt \in {"micro", "legacy"}
      /\ pc'[c] = "scan" => path'[c] = path[c] /\ r.op = "list_experiments"
  <2>1. CASE Reject(c, r) \/ StartWrite(c, r) \/ StartList(c, r)
    BY <2>1 DEF Reject, StartWrite, StartList, Answer, Say, Goto, LogInv, Inv, TypeOK
  <2>2. CASE StartRead(c, r)
    <3> DEFINE p == Found(Present, r.pid, Utc[r.at])
    <3>1. /\ r.op = "read_experiment" /\ path' = [path EXCEPT ![c] = p]
          /\ (IF p = None THEN Answer(c, "not_found", None)
                          ELSE Goto(c, "parse") /\ UNCHANGED result)
      BY <2>2 DEF StartRead
    <3>2. p # None => p.name.fmt \in {"micro", "legacy"}
      BY DEF Found, Micro, Legacy
    <3> HIDE DEF p
    <3> QED
      BY <3>1, <3>2 DEF Answer, Say, Goto, LogInv, Inv, TypeOK
  <2> QED
    BY <2>1, <2>2 DEF Start
<1>5. CallsAreTyped'
  BY <1>2, <1>3, <1>4 DEF LogInv, CallsAreTyped, Inv, TypeOK, Writing
<1>6. SiblingsAreNoRecords' /\ RivalsOverlap' /\ AloneIsWhole'
  BY <1>2, <1>3, <1>4, WritersKept DEF Writing
<1> QED
  BY <1>1, <1>5, <1>6 DEF LogInv

\* A writer that opens the sibling has it to itself, or is overlapped.
LEMMA OpenTmpLogInv ==
  ASSUME LogInv, NEW c \in Calls, OpenTmp(c)
  PROVE  LogInv'
<1> DEFINE p == path[c]
           i == IF tmp[p] = None THEN c ELSE tmp[p]
<1>1. /\ pc[c] = "open" /\ pc' = [pc EXCEPT ![c] = "head"]
      /\ tmp' = [tmp EXCEPT ![p] = i] /\ data' = [data EXCEPT ![i] = Blank]
      /\ fd' = [fd EXCEPT ![c] = i]
      /\ overlapped' = IF Rivals(c) = {} THEN overlapped
                       ELSE overlapped \cup Rivals(c) \cup {c}
      /\ UNCHANGED <<file, req, path, result>>
  BY DEF OpenTmp, Sibling, Goto
<1>2. p \in Paths
  BY <1>1 DEF LogInv, Inv, WritersKnowTheirPath
<1>3. i \in Calls /\ i # None /\ path[i] = p /\ (i = c \/ i = tmp[p])
  BY <1>2, Apart DEF LogInv, Inv, OnePathPerInode
<1>4. \A q \in Paths : file[q] # i
  BY <1>1, <1>2, <1>3 DEF LogInv, Inv, OnePathPerInode, Home, SiblingsAreNoRecords
<1> HIDE DEF i, p
<1>5. CallsAreTyped'
  BY <1>1 DEF LogInv, CallsAreTyped, Inv, TypeOK, Writing
<1>6. SiblingsAreNoRecords'
  BY <1>1, <1>2, <1>4 DEF LogInv, SiblingsAreNoRecords, Inv, TypeOK
<1>7. RivalsOverlap'
  BY <1>1 DEF LogInv, RivalsOverlap, Inv, TypeOK, Writing, Rivals
<1>8. AloneIsWhole'
  <2> SUFFICES ASSUME NEW d \in Calls, pc'[d] \in Writing, d \notin overlapped'
               PROVE  /\ tmp'[path[d]] \in {None, fd'[d]}
                      /\ file[path[d]] # fd'[d]
                      /\ pc'[d] = "tail" => data'[fd'[d]][1] = Stored(d)
                      /\ pc'[d] = "replace" => data'[fd'[d]] = WholeOf(Stored(d))
    <3>1. \A d \in Calls : Stored(d)' = Stored(d)
      BY <1>1 DEF Stored
    <3>2. path' = path /\ file' = file
      BY <1>1
    <3> QED
      BY ZenonT(40), <3>1, <3>2 DEF AloneIsWhole, WholeOf
  <2>1. CASE d = c
    BY <1>1, <1>2, <1>4, <2>1 DEF LogInv, Inv, TypeOK, p
  <2>2. CASE d # c
    <3>1. pc[d] \in Writing /\ fd'[d] = fd[d] /\ d \notin overlapped /\ path[d] # p
          /\ pc'[d] = pc[d]
      BY <1>1, <2>2 DEF LogInv, Inv, TypeOK, Rivals, p
    <3>2. path[d] \in Paths /\ fd[d] \in Calls /\ path[fd[d]] = path[d]
      BY <3>1 DEF LogInv, Inv, WritersKnowTheirPath, OnePathPerInode
    <3>3. data'[fd[d]] = data[fd[d]] /\ tmp'[path[d]] = tmp[path[d]]
      BY <1>1, <1>3, <3>1, <3>2 DEF LogInv, Inv, TypeOK, Inodes
    <3> QED
      BY <3>1, <3>2, <3>3 DEF LogInv, AloneIsWhole
  <2> QED
    BY <2>1, <2>2
<1>9. Inv'
  BY OpenTmpInv DEF LogInv
<1> QED
  BY <1>5, <1>6, <1>7, <1>8, <1>9 DEF LogInv

\* A writer fills in its own record; no other call that is alone has it open.
LEMMA WriteHalfLogInv ==
  ASSUME LogInv, NEW c \in Calls, WriteHead(c) \/ WriteTail(c)
  PROVE  LogInv'
<1>1. PICK half \in Halves :
        /\ data' = [data EXCEPT ![fd[c]] = [@ EXCEPT ![half] = Stored(c)]]
        /\ \/ half = 1 /\ pc[c] = "head" /\ pc' = [pc EXCEPT ![c] = "tail"]
           \/ half = 2 /\ pc[c] = "tail" /\ pc' = [pc EXCEPT ![c] = "replace"]
  BY DEF WriteHead, WriteTail, WriteHalf, Goto, Halves, AfterHead, AfterTail
<1>2. UNCHANGED <<file, tmp, req, path, fd, result, overlapped>>
  BY DEF WriteHead, WriteTail, WriteHalf
<1>3. fd[c] \in Calls /\ path[fd[c]] = path[c] /\ pc[c] \in Writing
  BY <1>1 DEF LogInv, Inv, OnePathPerInode, WritersKnowTheirPath, Writing
<1>4. CallsAreTyped'
  BY <1>1, <1>2 DEF LogInv, CallsAreTyped, Inv, TypeOK, Writing
<1>5. SiblingsAreNoRecords'
  BY <1>2 DEF LogInv, SiblingsAreNoRecords
<1>6. RivalsOverlap'
  <2>1. \A d \in Calls : pc'[d] \in Writing => pc[d] \in Writing
    BY <1>1, <1>3 DEF LogInv, Inv, TypeOK
  <2> QED
    BY <1>2, <2>1 DEF LogInv, RivalsOverlap
<1>7. AloneIsWhole'
  <2>0. \A d \in Calls : Stored(d)' = Stored(d)
    BY <1>2 DEF Stored
  <2> SUFFICES ASSUME NEW d \in Calls, pc'[d] \in Writing, d \notin overlapped'
               PROVE  /\ tmp'[path'[d]] \in {None, fd'[d]}
                      /\ file'[path'[d]] # fd'[d]
                      /\ pc'[d] = "tail" => data'[fd'[d]][1] = Stored(d)'
                      /\ pc'[d] = "replace" => data'[fd'[d]] = WholeOf(Stored(d)')
    BY DEF AloneIsWhole, WholeOf
  <2>1. pc[d] \in Writing
    BY <1>1, <1>3 DEF LogInv, Inv, TypeOK
  <2>2. CASE d = c
    <3>1. /\ data[fd[c]] \in [Halves -> Docs \cup {None}]
          /\ data'[fd[c]] = [data[fd[c]] EXCEPT ![half] = Stored(c)]
      BY <1>1, <1>3 DEF LogInv, Inv, TypeOK, Inodes
    <3>2. pc'[c] = "tail" => data'[fd[c]][1] = Stored(c)
      BY <1>1, <3>1 DEF LogInv, Inv, TypeOK, Halves
    <3>3. pc'[c] = "replace" => data'[fd[c]] = WholeOf(Stored(c))
      <4>1. pc'[c] = "replace" => half = 2 /\ data[fd[c]][1] = Stored(c)
        BY <1>1, <1>2, <2>1, <2>2 DEF LogInv, Inv, TypeOK, AloneIsWhole
      <4> QED
        BY <3>1, <4>1 DEF WholeOf, Halves
    <3> QED
      BY <1>2, <2>0, <2>1, <2>2, <3>2, <3>3 DEF LogInv, AloneIsWhole
  <2>3. CASE d # c
    <3>1. path[d] # path[c] /\ pc'[d] = pc[d]
      BY <1>1, <1>2, <1>3, <2>1, <2>3 DEF LogInv, RivalsOverlap, Inv, TypeOK
    <3>2. fd[d] \in Calls /\ path[fd[d]] = path[d]
      BY <2>1 DEF LogInv, Inv, WritersKnowTheirPath, OnePathPerInode
    <3>3. data'[fd[d]] = data[fd[d]]
      BY <1>1, <1>3, <3>1, <3>2 DEF LogInv, Inv, TypeOK, Inodes
    <3> QED
      BY <1>2, <2>0, <2>1, <3>1, <3>3 DEF LogInv, AloneIsWhole
  <2> QED
    BY <2>2, <2>3
<1>8. Inv'
  BY WriteHalfInv DEF LogInv
<1> QED
  BY <1>4, <1>5, <1>6, <1>7, <1>8 DEF LogInv

\* A writer that renames its sibling, or fails, leaves those of others alone.
LEMMA WriterEnds ==
  ASSUME LogInv, NEW c \in Calls, pc[c] \in Writing, NEW l \in {"done", "cleanup"},
         pc' = [pc EXCEPT ![c] = l], fd' = [fd EXCEPT ![c] = None],
         \/ UNCHANGED <<file, tmp>>
         \/ /\ tmp[path[c]] # None /\ tmp' = [tmp EXCEPT ![path[c]] = None]
            /\ file' = [file EXCEPT ![path[c]] = tmp[path[c]]],
         UNCHANGED <<data, req, path, overlapped>>
  PROVE  SiblingsAreNoRecords' /\ RivalsOverlap' /\ AloneIsWhole'
<1>1. SiblingsAreNoRecords'
  BY DEF LogInv, SiblingsAreNoRecords, Inv, TypeOK
<1>2. RivalsOverlap'
  BY DEF LogInv, RivalsOverlap, Inv, TypeOK, Writing
<1>3. AloneIsWhole'
  <2>0. \A d \in Calls : Stored(d)' = Stored(d)
    BY DEF Stored
  <2> SUFFICES ASSUME NEW d \in Calls, pc'[d] \in Writing, d \notin overlapped'
               PROVE  /\ tmp'[path'[d]] \in {None, fd'[d]}
                      /\ file'[path'[d]] # fd'[d]
                      /\ pc'[d] = "tail" => data'[fd'[d]][1] = Stored(d)'
                      /\ pc'[d] = "replace" => data'[fd'[d]] = WholeOf(Stored(d)')
    BY DEF AloneIsWhole, WholeOf
  <2>1. d # c /\ pc[d] \in Writing /\ pc'[d] = pc[d] /\ fd'[d] = fd[d]
    BY DEF LogInv, Inv, TypeOK, Writing
  <2>2. path[d] # path[c] /\ path[d] \in Paths
    BY <2>1 DEF LogInv, RivalsOverlap, Inv, WritersKnowTheirPath
  <2>3. tmp'[path[d]] = tmp[path[d]] /\ file'[path[d]] = file[path[d]]
    BY <2>2 DEF LogInv, Inv, TypeOK
  <2> QED
    BY <2>0, <2>1, <2>3 DEF LogInv, AloneIsWhole
<1> QED
  BY <1>1, <1>2, <1>3

\* An answer, or an exception, ends a call, and the others stay as they were.
LEMMA AnswerCalls ==
  ASSUME LogInv, NEW c \in Calls, (\E is, d : Answer(c, is, d)) \/ Raise(c),
         UNCHANGED <<path, req>>
  PROVE  CallsAreTyped'
  BY DEF Answer, Raise, Say, Goto, LogInv, CallsAreTyped, Inv, TypeOK, Writing

\* A write that ends, whether or not it landed.
LEMMA ReplaceLogInv ==
  ASSUME LogInv, NEW c \in Calls, Replace(c)
  PROVE  LogInv'
<1>1. /\ pc[c] \in Writing /\ fd' = [fd EXCEPT ![c] = None]
      /\ UNCHANGED <<data, req, path, overlapped>>
      /\ Answer(c, "ok", None) \/ Raise(c)
      /\ \/ UNCHANGED <<file, tmp>>
         \/ /\ tmp[path[c]] # None /\ tmp' = [tmp EXCEPT ![path[c]] = None]
            /\ file' = [file EXCEPT ![path[c]] = tmp[path[c]]]
  BY DEF Replace, Sibling, Writing
<1>2. \E l \in {"done", "cleanup"} : pc' = [pc EXCEPT ![c] = l]
  BY <1>1 DEF Answer, Raise, Goto
<1>3. SiblingsAreNoRecords' /\ RivalsOverlap' /\ AloneIsWhole'
  BY <1>1, <1>2, WriterEnds
<1>4. CallsAreTyped'
  BY <1>1, AnswerCalls
<1>5. Inv'
  BY ReplaceInv DEF LogInv
<1> QED
  BY <1>3, <1>4, <1>5 DEF LogInv

\* The steps of readers and listings, and failures.
LEMMA OtherStepsLogInv ==
  ASSUME LogInv, NEW c \in Calls,
         \/ Parse(c) \/ (\E pid \in Pids : Scan(c, pid)) \/ ScanDone(c)
         \/ CleanUp(c) \/ MkdirFails(c) \/ WriteFails(c)
  PROVE  LogInv'
<1>1. Inv'
  BY OtherStepsInv DEF LogInv
<1>2. UNCHANGED <<file, data, req, path, overlapped>>
  BY DEF Parse, Scan, ScanDone, CleanUp, MkdirFails, WriteFails
<1>3. CallsAreTyped'
  <2>1. CASE \E pid \in Pids : Scan(c, pid)
    BY <2>1 DEF Scan, LogInv, CallsAreTyped
  <2>2. CASE CleanUp(c)
    BY <1>2, <2>2 DEF CleanUp, Goto, LogInv, CallsAreTyped, Inv, TypeOK, Writing
  <2>3. CASE Parse(c) \/ ScanDone(c) \/ MkdirFails(c) \/ WriteFails(c)
    <3>1. (\E is, d : Answer(c, is, d)) \/ Raise(c)
      BY <2>3 DEF Parse, ScanDone, MkdirFails, WriteFails
    <3> QED
      BY <1>2, <3>1, AnswerCalls
  <2> QED
    BY <2>1, <2>2, <2>3
<1>4. SiblingsAreNoRecords' /\ RivalsOverlap' /\ AloneIsWhole'
  <2>1. CASE WriteFails(c) /\ pc[c] \in Writing
    <3>1. /\ pc' = [pc EXCEPT ![c] = "cleanup"] /\ fd' = [fd EXCEPT ![c] = None]
          /\ tmp' = tmp
      BY <2>1 DEF WriteFails, Raise, Goto
    <3> QED
      BY <1>2, <2>1, <3>1, WriterEnds
  <2>2. CASE pc[c] \notin Writing
    <3>1. pc'[c] \notin Writing /\ \A d \in Calls \ {c} : pc'[d] = pc[d] /\ fd'[d] = fd[d]
      BY <2>2 DEF Parse, Scan, ScanDone, CleanUp, MkdirFails, WriteFails, Answer, Raise,
                  Goto, Writing, LogInv, Inv, TypeOK
    <3>2. tmp' = tmp \/ tmp' = [tmp EXCEPT ![path[c]] = None]
      BY DEF Parse, Scan, ScanDone, CleanUp, MkdirFails, WriteFails, Sibling
    <3>3. \A q \in Paths : tmp'[q] \in {None, tmp[q]}
      BY <3>2 DEF LogInv, Inv, TypeOK
    <3> QED
      BY <1>2, <2>2, <3>1, <3>3, WritersKept
  <2>3. pc[c] \in Writing => WriteFails(c)
    BY DEF Parse, Scan, ScanDone, CleanUp, MkdirFails, Writing
  <2> QED
    BY <2>1, <2>2, <2>3
<1> QED
  BY <1>1, <1>3, <1>4 DEF LogInv

\* After a restart nobody writes.
LEMMA CrashLogInv ==
  ASSUME LogInv, Crash
  PROVE  LogInv'
<1>1. /\ pc' = [c \in Calls |-> IF pc[c] \in {"idle", "done"} THEN pc[c] ELSE "lost"]
      /\ UNCHANGED <<file, tmp, data, req, path, result, overlapped>>
  BY DEF Crash
<1>2. \A c \in Calls : pc'[c] \notin {"open", "parse", "scan"} \cup Writing
  BY <1>1 DEF Writing, LogInv, Inv, TypeOK
<1>3. CallsAreTyped' /\ RivalsOverlap' /\ AloneIsWhole'
  BY <1>1, <1>2 DEF LogInv, CallsAreTyped, RivalsOverlap, AloneIsWhole
<1>4. SiblingsAreNoRecords'
  BY <1>1 DEF LogInv, SiblingsAreNoRecords
<1>5. Inv'
  BY CrashInv DEF LogInv
<1> QED
  BY <1>3, <1>4, <1>5 DEF LogInv

\* Every step keeps the invariant.
LEMMA StepLogInv == LogInv /\ [Next]_vars => LogInv'
<1> SUFFICES ASSUME LogInv, [Next]_vars PROVE LogInv'
  OBVIOUS
<1>1. Inv'
  BY StepInv DEF LogInv
<1>2. CASE Bootstrap \/ UNCHANGED vars
  <2>1. UNCHANGED <<file, tmp, data, pc, req, path, fd, result, overlapped>>
    BY <1>2 DEF Bootstrap, vars
  <2> QED
    BY <1>1, <2>1 DEF LogInv, CallsAreTyped, SiblingsAreNoRecords, RivalsOverlap,
                      AloneIsWhole, Stored, WholeOf
<1>3. ASSUME NEW c \in Calls, NEW r \in Requests, Start(c, r)
      PROVE  LogInv'
  BY <1>3, StartLogInv
<1>4. ASSUME NEW c \in Calls, CallStep(c) \/ MkdirFails(c) \/ WriteFails(c)
      PROVE  LogInv'
  BY <1>4, OpenTmpLogInv, WriteHalfLogInv, ReplaceLogInv, OtherStepsLogInv DEF CallStep
<1>5. CASE Crash
  BY <1>5, CrashLogInv
<1> QED
  BY <1>2, <1>3, <1>4, <1>5 DEF Next

-----------------------------------------------------------------------------
\* What a call is writing, in the log's eyes.
LEMMA WritingIs ==
  ASSUME LogInv, NEW c \in Calls
  PROVE  /\ pc[c] \in Writing =>
              /\ WritingBar[c] = [path |-> path[c], doc |-> Stored(c)]
              /\ WritingBar[c] # None
              /\ WritingBar[c].path = path[c] /\ WritingBar[c].doc = Stored(c)
         /\ pc[c] \notin Writing => WritingBar[c] = None
<1>1. CASE pc[c] \in Writing
  <2>1. WritingBar[c] = [path |-> path[c], doc |-> Stored(c)]
    BY <1>1 DEF WritingBar
  <2>2. path[c] \in Paths /\ Stored(c) \in Docs
    BY <1>1, StoredFits DEF LogInv, Inv, WritersKnowTheirPath
  <2>3. [path |-> path[c], doc |-> Stored(c)] \in [path : Paths, doc : Docs]
    BY <2>2
  <2> QED
    BY <1>1, <2>1, <2>3, Apart
<1>2. CASE pc[c] \notin Writing
  BY <1>2 DEF WritingBar
<1> QED
  BY <1>1, <1>2

\* The writers of a path.
LEMMA WritersAre ==
  ASSUME LogInv, NEW p
  PROVE  Log!Writers(p) = {d \in Calls : pc[d] \in Writing /\ path[d] = p}
  BY WritingIs DEF Log!Writers

\* A file's record is one of the records, or a mixture.
LEMMA RecordType ==
  ASSUME LogInv, NEW p \in Paths
  PROVE  /\ RecordAt(p) \in Docs \cup {Garbled, None}
         /\ RecordAt(p) = None <=> file[p] = None
<1>1. CASE file[p] = None
  BY <1>1 DEF RecordAt
<1>2. CASE file[p] # None /\ Whole(file[p])
  <2>1. PICK d \in Docs : data[file[p]] = WholeOf(d)
    BY <1>2 DEF Whole
  <2>2. data[file[p]][1] = d
    BY <2>1 DEF WholeOf, Halves
  <2> QED
    BY <1>2, <2>2, Apart DEF RecordAt
<1>3. CASE file[p] # None /\ ~Whole(file[p])
  BY <1>3, Apart DEF RecordAt
<1> QED
  BY <1>1, <1>2, <1>3

\* And after a step, which is the same fact about the next state.
LEMMA RecordTypeNext ==
  ASSUME LogInv', NEW p \in Paths
  PROVE  /\ RecordAt(p)' \in Docs \cup {Garbled, None}
         /\ RecordAt(p)' = None <=> file'[p] = None
<1>1. CASE file'[p] = None
  BY <1>1 DEF RecordAt
<1>2. CASE file'[p] # None /\ Whole(file[p])'
  <2>1. PICK d \in Docs : data'[file'[p]] = WholeOf(d)
    BY <1>2 DEF Whole, WholeOf
  <2>2. data'[file'[p]][1] = d
    BY <2>1 DEF WholeOf, Halves
  <2> QED
    BY <1>2, <2>2, Apart DEF RecordAt
<1>3. CASE file'[p] # None /\ ~Whole(file[p])'
  BY <1>3, Apart DEF RecordAt
<1> QED
  BY <1>1, <1>2, <1>3

\* The paths that have a record are those that have a file.
LEMMA PresentInLog ==
  ASSUME LogInv
  PROVE  {q \in Paths : LogBar[q] # None} = Present
  BY RecordType DEF LogBar, Present

\* A call that does not move says nothing: legacy records do not change.
LEMMA AnswerKept ==
  ASSUME LogInv, [Next]_vars, NEW d \in Calls, (pc'[d] = "idle") <=> (pc[d] = "idle"),
         req'[d] = req[d], path'[d] = path[d], result'[d] = result[d]
  PROVE  AnswerBar'[d] = AnswerBar[d]
<1>1. path[d] # None /\ path[d].name.fmt = "legacy" => RecordAt(path[d])' = RecordAt(path[d])
  <2> SUFFICES ASSUME path[d] # None, path[d].name.fmt = "legacy"
               PROVE  RecordAt(path[d])' = RecordAt(path[d])
    OBVIOUS
  <2>1. path[d] \in Paths
    BY DEF LogInv, Inv, TypeOK
  <2>2. /\ file'[path[d]] = file[path[d]]
        /\ file[path[d]] # None => data'[file[path[d]]] = data[file[path[d]]]
    BY <2>1, OthersKept DEF LogInv
  <2> QED
    BY <2>2 DEF RecordAt, Whole
<1> QED
  BY <1>1 DEF AnswerBar

\* A step of one call moves no other.
LEMMA OneCallMoves ==
  ASSUME LogInv, NEW c \in Calls,
         \/ \E r \in Requests : Start(c, r)
         \/ CallStep(c) \/ MkdirFails(c) \/ WriteFails(c)
  PROVE  \A d \in Calls \ {c} : /\ pc'[d] = pc[d] /\ req'[d] = req[d]
                                /\ path'[d] = path[d] /\ result'[d] = result[d]
<1>1. CASE \E r \in Requests : Start(c, r)
  BY <1>1 DEF Start, Reject, StartWrite, StartRead, StartList, Begin, Answer, Say, Goto,
              LogInv, Inv, TypeOK
<1>2. CASE OpenTmp(c) \/ WriteHead(c) \/ WriteTail(c)
  BY <1>2 DEF OpenTmp, WriteHead, WriteTail, WriteHalf, Goto, LogInv, Inv, TypeOK
<1>3. CASE Replace(c) \/ Parse(c) \/ (\E pid \in Pids : Scan(c, pid)) \/ ScanDone(c)
           \/ CleanUp(c) \/ MkdirFails(c) \/ WriteFails(c)
  BY <1>3 DEF Replace, Parse, Scan, ScanDone, CleanUp, MkdirFails, WriteFails, Answer, Raise,
              Say, Goto, LogInv, Inv, TypeOK
<1> QED
  BY <1>1, <1>2, <1>3 DEF CallStep

\* A step of one call that is not heard of: the log's state stays.
LEMMA Unheard ==
  ASSUME LogInv, LogInv', [Next]_vars, NEW c \in Calls,
         \A d \in Calls \ {c} : /\ pc'[d] = pc[d] /\ req'[d] = req[d]
                                /\ path'[d] = path[d] /\ result'[d] = result[d]
  PROVE  /\ \A d \in Calls \ {c} : AnswerBar'[d] = AnswerBar[d]
         /\ \A d \in Calls \ {c} : WritingBar'[d] = WritingBar[d]
         /\ UNCHANGED <<file, data>> => LogBar' = LogBar
<1>1. ASSUME NEW d \in Calls \ {c}
      PROVE  AnswerBar'[d] = AnswerBar[d] /\ WritingBar'[d] = WritingBar[d]
  <2>1. AnswerBar'[d] = AnswerBar[d]
    BY <1>1, AnswerKept
  <2>2. WritingBar'[d] = WritingBar[d]
    BY <1>1 DEF WritingBar, Stored
  <2> QED
    BY <2>1, <2>2
<1>2. UNCHANGED <<file, data>> => LogBar' = LogBar
  BY DEF LogBar, RecordAt, Whole
<1> QED
  BY <1>1, <1>2

\* The log's state.
logVars == <<LogBar, WritingBar, overlapped, AnswerBar>>

\* AnswerBar and WritingBar, by the call that moves.
LEMMA BarsAreFunctions ==
  /\ AnswerBar = [c \in Calls |-> AnswerBar[c]] /\ AnswerBar' = [c \in Calls |-> AnswerBar'[c]]
  /\ WritingBar = [c \in Calls |-> WritingBar[c]]
  /\ WritingBar' = [c \in Calls |-> WritingBar'[c]]
  BY DEF AnswerBar, WritingBar

\* A call that starts is a read that finds nothing, or a record of v0.1.0, or
\* is not heard of yet.
LEMMA StartLog ==
  ASSUME LogInv, LogInv', [Next]_vars, NEW c \in Calls, NEW r \in Requests, Start(c, r)
  PROVE  [Log!Next]_logVars
<1>1. /\ pc[c] = "idle" /\ req' = [req EXCEPT ![c] = r] /\ req'[c] = r
      /\ UNCHANGED <<file, tmp, data, fd, overlapped>>
  BY DEF Start, Reject, StartWrite, StartRead, StartList, Begin, LogInv, Inv, TypeOK
<1>2. /\ \A d \in Calls \ {c} : AnswerBar'[d] = AnswerBar[d]
      /\ \A d \in Calls \ {c} : WritingBar'[d] = WritingBar[d]
      /\ LogBar' = LogBar
  <2>1. \A d \in Calls \ {c} : /\ pc'[d] = pc[d] /\ req'[d] = req[d]
                                /\ path'[d] = path[d] /\ result'[d] = result[d]
    BY OneCallMoves
  <2> QED
    BY <1>1, <2>1, Unheard
<1>3. pc'[c] \in {"open", "parse", "scan", "done"} /\ path[c] = None /\ result[c].is = "none"
  BY <1>1 DEF Start, Reject, StartWrite, StartRead, StartList, Answer, Say, Goto, LogInv, Inv,
              TypeOK, CallsAreTyped
<1>4. WritingBar' = WritingBar
  <2>1. WritingBar[c] = None /\ WritingBar'[c] = None
    BY <1>1, <1>3 DEF WritingBar, Writing
  <2> QED
    BY <1>2, <2>1, BarsAreFunctions
<1>5. AnswerBar[c] = None
  BY <1>1 DEF AnswerBar
<1>6. CASE AnswerBar'[c] = None
  BY <1>1, <1>2, <1>4, <1>5, <1>6, BarsAreFunctions DEF logVars
<1>7. CASE AnswerBar'[c] # None
  <2>1. CASE Reject(c, r) \/ StartWrite(c, r) \/ StartList(c, r)
    <3>1. \/ path'[c] = None /\ result'[c].is \notin {"ok", "parse_error", "not_found"}
          \/ r.op # "read_experiment" /\ result'[c].is = "none"
      BY <1>3, <2>1 DEF Reject, Rejected, StartWrite, StartList, Answer, Say, LogInv, Inv,
                        TypeOK
    <3> QED
      BY <1>1, <1>3, <1>7, <3>1 DEF AnswerBar
  <2>2. CASE StartRead(c, r)
    <3> DEFINE p == Found(Present, r.pid, Utc[r.at])
    <3>1. /\ r.op = "read_experiment" /\ path' = [path EXCEPT ![c] = p]
          /\ (IF p = None THEN Answer(c, "not_found", None)
                          ELSE Goto(c, "parse") /\ UNCHANGED result)
      BY <2>2 DEF StartRead
    <3>2. r.pid \in Pids /\ Utc[r.at] \in Times
      BY <3>1, ReadArguments, ExperimentDataAssumption, Apart
    <3>3. p = Log!Found({q \in Paths : LogBar[q] # None}, r.pid, Utc[r.at])
      BY PresentInLog DEF Found, Micro, Legacy, Log!Found, Log!Micro, Log!Legacy
    <3>4. p = None \/ p \in Paths
      BY <3>2, FoundIsPresent DEF Present
    <3> HIDE DEF p
    <3>5. path'[c] = p
      BY <3>1 DEF LogInv, Inv, TypeOK
    <3>6. CASE p = None
      <4>1. result'[c].is = "not_found"
        BY <3>1, <3>6 DEF Answer, Say, LogInv, Inv, TypeOK
      <4>2. AnswerBar'[c] = [is |-> "not_found", doc |-> None]
        BY <1>1, <1>3, <3>1, <3>5, <3>6, <4>1 DEF AnswerBar, Effect
      <4>3. AnswerBar' = [AnswerBar EXCEPT ![c] = [is |-> "not_found", doc |-> None]]
        BY <1>2, <4>2, BarsAreFunctions
      <4>4. Log!Found({q \in Log!Paths : LogBar[q] # None}, r.pid, Utc[r.at]) = None
        BY <3>3, <3>6 DEF Log!Paths, Log!Names, Paths, Names
      <4>5. Log!Say(c, "not_found", None)
        BY <1>5, <4>3 DEF Log!Say
      <4>6. Log!Read(c, r.pid, Utc[r.at])
        BY <1>1, <1>2, <1>4, <4>4, <4>5 DEF Log!Read
      <4> QED
        BY <3>2, <4>6 DEF Log!Next
    <3>7. CASE p \in Paths
      <4>1. p # None /\ result'[c].is = "none"
        BY <1>3, <3>1, <3>7, Apart
      <4>2. AnswerBar'[c] = [is |-> "read", doc |-> LogBar'[p]]
        BY <1>1, <1>3, <1>7, <3>1, <3>5, <3>7, <4>1 DEF AnswerBar, Effect, LogBar
      <4>3. AnswerBar' = [AnswerBar EXCEPT ![c] = [is |-> "read", doc |-> LogBar[p]]]
        BY <1>2, <4>2, BarsAreFunctions
      <4> QED
        BY <1>1, <1>2, <1>4, <1>5, <3>2, <3>3, <4>1, <4>3
           DEF Log!Next, Log!Read, Log!Say, Log!Paths, Log!Names, Paths, Names
    <3> QED
      BY <3>4, <3>6, <3>7
  <2> QED
    BY <2>1, <2>2 DEF Start
<1> QED
  BY <1>6, <1>7

\* Opening the sibling begins a write, and changes no record.
LEMMA OpenTmpLog ==
  ASSUME LogInv, LogInv', [Next]_vars, NEW c \in Calls, OpenTmp(c)
  PROVE  Log!Begin(c, Stored(c)) /\ Stored(c) \in Docs
<1> DEFINE p == path[c]
           i == IF tmp[p] = None THEN c ELSE tmp[p]
<1>1. /\ pc[c] = "open" /\ pc' = [pc EXCEPT ![c] = "head"]
      /\ data' = [data EXCEPT ![i] = Blank]
      /\ overlapped' = IF Rivals(c) = {} THEN overlapped
                       ELSE overlapped \cup Rivals(c) \cup {c}
      /\ UNCHANGED <<file, req, path, result>>
  BY DEF OpenTmp, Sibling, Goto
<1>2. /\ p \in Paths /\ p.name.fmt = "micro"
      /\ req[c] \in AllRequests /\ req[c].op = "write_experiment"
  BY <1>1 DEF LogInv, Inv, WritersKnowTheirPath
<1>3. /\ Stored(c) \in Docs /\ Stored(c).pid = p.pid /\ Stored(c).at = p.name.at
  BY <1>1, StoredFits DEF LogInv
<1>4. p = Log!Target(Stored(c).pid, Stored(c).at)
  BY <1>2, <1>3 DEF Log!Target, Log!Micro, Paths, Names
<1>5. LogBar' = LogBar
  <2>1. \A q \in Paths : file[q] # i
    BY <1>1, <1>2, Apart DEF LogInv, Inv, OnePathPerInode, Home, SiblingsAreNoRecords
  <2> HIDE DEF i
  <2>2. \A q \in Paths : file[q] # None => data'[file[q]] = data[file[q]]
    BY <1>1, <2>1 DEF LogInv, Inv, TypeOK
  <2> QED
    BY <1>1, <2>2 DEF LogBar, RecordAt, Whole
<1>6. /\ \A d \in Calls \ {c} : AnswerBar'[d] = AnswerBar[d]
      /\ \A d \in Calls \ {c} : WritingBar'[d] = WritingBar[d]
  <2>1. \A d \in Calls \ {c} : /\ pc'[d] = pc[d] /\ req'[d] = req[d]
                                /\ path'[d] = path[d] /\ result'[d] = result[d]
    BY OneCallMoves DEF CallStep
  <2> QED
    BY <2>1, Unheard
<1>7. AnswerBar[c] = None /\ AnswerBar' = AnswerBar
  <2>1. pc'[c] # "idle" /\ pc[c] # "idle"
    BY <1>1 DEF LogInv, Inv, TypeOK
  <2>2. result[c].is = "none" /\ req[c].op # "read_experiment"
    BY <1>1, <1>2 DEF LogInv, CallsAreTyped
  <2>3. AnswerBar[c] = None /\ AnswerBar'[c] = None
    BY <1>1, <2>1, <2>2 DEF AnswerBar
  <2> QED
    BY <1>6, <2>3, BarsAreFunctions
<1>8. WritingBar[c] = None
  BY <1>1, WritingIs DEF Writing
<1>9. WritingBar' = [WritingBar EXCEPT ![c] = [path |-> p, doc |-> Stored(c)]]
  <2>1. pc'[c] \in Writing /\ Stored(c)' = Stored(c)
    BY <1>1 DEF LogInv, Inv, TypeOK, Writing, Stored
  <2>2. WritingBar'[c] = [path |-> p, doc |-> Stored(c)]
    BY <1>1, <2>1 DEF WritingBar
  <2> QED
    BY <1>6, <2>2, BarsAreFunctions
<1>10. Log!Writers(p) = Rivals(c)
  <2>1. pc[c] \notin Writing
    BY <1>1 DEF Writing
  <2> QED
    BY <2>1, WritersAre DEF Rivals
<1> HIDE DEF p, i
<1> QED
  BY <1>1, <1>3, <1>4, <1>5, <1>7, <1>8, <1>9, <1>10 DEF Log!Begin

\* A write that is answered, or raises, and the log's view of it.
LEMMA AnswerOfWrite ==
  ASSUME LogInv, LogInv', [Next]_vars, NEW c \in Calls,
         pc[c] \in {"open"} \cup Writing, NEW is \in {"ok", "tool_error"},
         Answer(c, is, None) \/ (is = "tool_error" /\ Raise(c)),
         UNCHANGED <<req, path>>
  PROVE  /\ AnswerBar[c] = None
         /\ AnswerBar' = [AnswerBar EXCEPT ![c] =
              [is |-> IF is = "ok" THEN "recorded" ELSE "failed", doc |-> None]]
         /\ WritingBar' = [WritingBar EXCEPT ![c] = None]
         /\ UNCHANGED <<file, data>> => LogBar' = LogBar
<1>1. /\ req[c].op = "write_experiment" /\ path[c] \in Paths /\ path[c] # None
      /\ result[c].is = "none" /\ pc[c] # "idle"
  BY Apart DEF LogInv, Inv, WritersKnowTheirPath, CallsAreTyped, Writing
<1>2. pc'[c] \in {"done", "cleanup"} /\ result'[c].is = is
  BY DEF Answer, Raise, Say, Goto, LogInv, Inv, TypeOK
<1>3. AnswerBar[c] = None
  BY <1>1 DEF AnswerBar
<1>4. AnswerBar'[c] = [is |-> IF is = "ok" THEN "recorded" ELSE "failed", doc |-> None]
  BY <1>1, <1>2 DEF AnswerBar, Effect
<1>5. WritingBar'[c] = None
  BY <1>2 DEF WritingBar, Writing
<1>6. \A d \in Calls \ {c} : /\ pc'[d] = pc[d] /\ req'[d] = req[d]
                              /\ path'[d] = path[d] /\ result'[d] = result[d]
  BY DEF Answer, Raise, Say, Goto, LogInv, Inv, TypeOK
<1>7. /\ \A d \in Calls \ {c} : AnswerBar'[d] = AnswerBar[d]
      /\ \A d \in Calls \ {c} : WritingBar'[d] = WritingBar[d]
      /\ UNCHANGED <<file, data>> => LogBar' = LogBar
  BY <1>6, Unheard
<1> QED
  BY <1>3, <1>4, <1>5, <1>7, BarsAreFunctions

\* A write to an inode that is a record already is a collision.
LEMMA WriteHalfLog ==
  ASSUME LogInv, LogInv', [Next]_vars, NEW c \in Calls, WriteHead(c) \/ WriteTail(c)
  PROVE  Log!Collide(c) \/ UNCHANGED logVars
<1>1. /\ pc[c] \in Writing /\ pc'[c] \in Writing /\ pc[c] # "idle" /\ pc'[c] # "idle"
      /\ \A j \in Inodes \ {fd[c]} : data'[j] = data[j]
      /\ UNCHANGED <<file, tmp, req, path, fd, result, overlapped>>
  BY DEF WriteHead, WriteTail, WriteHalf, Goto, Writing, AfterHead, AfterTail, LogInv, Inv,
         TypeOK
<1>2. /\ path[c] \in Paths /\ fd[c] \in Calls /\ path[fd[c]] = path[c]
  BY <1>1 DEF LogInv, Inv, WritersKnowTheirPath, OnePathPerInode
<1>3. \A d \in Calls \ {c} : pc'[d] = pc[d]
  BY OneCallMoves DEF CallStep
<1>4. AnswerBar' = AnswerBar /\ WritingBar' = WritingBar
  <2>1. /\ \A d \in Calls \ {c} : AnswerBar'[d] = AnswerBar[d]
        /\ \A d \in Calls \ {c} : WritingBar'[d] = WritingBar[d]
    BY <1>1, <1>3, Unheard
  <2>2. AnswerBar'[c] = AnswerBar[c]
    BY <1>1, AnswerKept
  <2>3. WritingBar'[c] = WritingBar[c]
    BY <1>1 DEF WritingBar, Stored
  <2> QED
    BY <2>1, <2>2, <2>3, BarsAreFunctions
<1>5. \A q \in Paths : file[q] # fd[c] => LogBar'[q] = LogBar[q]
  <2>1. \A q \in Paths : file[q] # None => file[q] \in Inodes
    BY DEF LogInv, Inv, TypeOK
  <2> QED
    BY <1>1, <2>1 DEF LogBar, RecordAt, Whole
<1>6. CASE file[path[c]] # fd[c]
  <2>1. \A q \in Paths : file[q] # fd[c]
    BY <1>2, <1>6, Apart DEF LogInv, Inv, OnePathPerInode, Home
  <2>2. LogBar' = LogBar
    BY <1>5, <2>1 DEF LogBar
  <2> QED
    BY <1>1, <1>4, <2>2 DEF logVars
<1>7. CASE file[path[c]] = fd[c]
  <2>1. c \in overlapped
    BY <1>1, <1>7 DEF LogInv, AloneIsWhole
  <2>2. \A q \in Paths : q # path[c] => file[q] # fd[c]
    BY <1>2, Apart DEF LogInv, Inv, OnePathPerInode, Home
  <2>3. LogBar'[path[c]] \in Docs \cup {Garbled}
    <3>0. PICK q \in Paths : q = path[c]
      BY <1>2
    <3>1. RecordAt(q)' \in Docs \cup {Garbled, None} /\ (RecordAt(q)' = None <=> file'[q] = None)
      BY RecordTypeNext
    <3>2. file'[q] # None
      BY <1>1, <1>2, <1>7, <3>0, Apart
    <3>3. LogBar'[q] = RecordAt(q)'
      BY DEF LogBar
    <3> QED
      BY <3>0, <3>1, <3>2, <3>3
  <2>4. LogBar' = [LogBar EXCEPT ![path[c]] = LogBar'[path[c]]]
    BY <1>2, <1>5, <2>2 DEF LogBar
  <2>5. WritingBar[c] # None /\ WritingBar[c].path = path[c]
    BY <1>1, WritingIs
  <2> QED
    BY <1>1, <1>4, <2>1, <2>3, <2>4, <2>5 DEF Log!Collide, Log!Docs, Docs
<1> QED
  BY <1>6, <1>7

\* A rename lands a record whole if its writer met no other, or collides; with
\* no sibling to rename the write fails.
LEMMA ReplaceLog ==
  ASSUME LogInv, LogInv', [Next]_vars, NEW c \in Calls, Replace(c)
  PROVE  Log!Land(c) \/ Log!Collide(c) \/ Log!Fail(c)
<1>1. /\ pc[c] = "replace" /\ pc[c] \in Writing
      /\ UNCHANGED <<data, req, path, overlapped>>
  BY DEF Replace, Writing
<1>2. /\ path[c] \in Paths
      /\ WritingBar[c] # None /\ WritingBar[c].path = path[c] /\ WritingBar[c].doc = Stored(c)
  BY <1>1, WritingIs DEF LogInv, Inv, WritersKnowTheirPath
<1>3. CASE tmp[path[c]] = None
  <2>1. Raise(c) /\ file' = file
    BY <1>3 DEF Replace, Sibling
  <2> QED
    BY <1>1, <2>1, AnswerOfWrite DEF Log!Fail, Log!Say
<1>4. CASE tmp[path[c]] # None
  <2>1. /\ Answer(c, "ok", None)
        /\ file' = [file EXCEPT ![path[c]] = tmp[path[c]]]
    BY <1>4 DEF Replace, Sibling
  <2>2. /\ Log!Say(c, "recorded", None)
        /\ WritingBar' = [WritingBar EXCEPT ![c] = None]
    BY <1>1, <2>1, AnswerOfWrite DEF Log!Say
  <2>3. PICK q \in Paths : q = path[c]
    BY <1>2
  <2>4. LogBar' = [LogBar EXCEPT ![q] = RecordAt(q)']
    BY <1>1, <2>1, <2>3 DEF LogBar, RecordAt, Whole, LogInv, Inv, TypeOK
  <2>5. file'[q] = tmp[q]
    BY <2>1, <2>3 DEF LogInv, Inv, TypeOK
  <2>6. CASE c \in overlapped
    <3>1. RecordAt(q)' \in Docs \cup {Garbled}
      BY <1>4, <2>3, <2>5, RecordTypeNext
    <3> QED
      BY <1>1, <1>2, <2>2, <2>3, <2>4, <2>6, <3>1 DEF Log!Collide, Log!Docs, Docs
  <2>7. CASE c \notin overlapped
    <3>1. tmp[q] = fd[c] /\ data[fd[c]] = WholeOf(Stored(c)) /\ Stored(c) \in Docs
      BY <1>1, <1>4, <2>3, <2>7, StoredFits DEF LogInv, AloneIsWhole
    <3>2. RecordAt(q)' = Stored(c)
      <4>1. file'[q] # None /\ data'[file'[q]] = WholeOf(Stored(c))
        BY <1>1, <1>4, <2>3, <2>5, <3>1
      <4>2. Whole(file[q])'
        BY <3>1, <4>1 DEF Whole, WholeOf
      <4>3. WholeOf(Stored(c))[1] = Stored(c)
        BY DEF WholeOf, Halves
      <4> QED
        BY <4>1, <4>2, <4>3 DEF RecordAt
    <3> QED
      BY <1>1, <1>2, <2>2, <2>3, <2>4, <2>7, <3>2 DEF Log!Land
  <2> QED
    BY <2>6, <2>7
<1> QED
  BY <1>3, <1>4

\* A path in the current format is one that write_experiment could make.
LEMMA MicroShape ==
  ASSUME NEW p \in Paths, p.name.fmt = "micro"
  PROVE  \E pid \in Pids, t \in Times : p = Micro(pid, t)
  BY DEF Paths, Names, Micro

\* A read answers the record that is at its path.
LEMMA ParseLog ==
  ASSUME LogInv, LogInv', [Next]_vars, NEW c \in Calls, Parse(c)
  PROVE  [Log!Next]_logVars
<1>1. /\ pc[c] = "parse" /\ result[c].is = "none" /\ req[c].op = "read_experiment"
      /\ path[c].name.fmt \in {"micro", "legacy"} /\ path[c] \in Present
      /\ path[c] \in Paths /\ path[c] # None
      /\ UNCHANGED <<file, data, req, path, overlapped>>
  BY Apart DEF Parse, LogInv, Inv, CallsAreTyped, WritersKnowTheirPath, Present
<1>2. /\ pc'[c] = "done"
      /\ \/ result'[c].is = "ok" /\ result'[c].doc = RecordAt(path[c])
         \/ result'[c].is = "parse_error" /\ RecordAt(path[c]) = Garbled
  BY <1>1 DEF Parse, Answer, Say, Goto, RecordAt, LogInv, Inv, TypeOK, Present
<1>3. /\ \A d \in Calls \ {c} : AnswerBar'[d] = AnswerBar[d]
      /\ \A d \in Calls \ {c} : WritingBar'[d] = WritingBar[d]
      /\ LogBar' = LogBar
  <2>1. \A d \in Calls \ {c} : /\ pc'[d] = pc[d] /\ req'[d] = req[d]
                                /\ path'[d] = path[d] /\ result'[d] = result[d]
    BY OneCallMoves DEF CallStep
  <2> QED
    BY <1>1, <2>1, Unheard
<1>4. WritingBar' = WritingBar
  <2>1. WritingBar[c] = None /\ WritingBar'[c] = None
    BY <1>1, <1>2 DEF WritingBar, Writing
  <2> QED
    BY <1>3, <2>1, BarsAreFunctions
<1>5. CASE path[c].name.fmt = "legacy"
  <2>1. AnswerBar'[c] = AnswerBar[c]
    BY <1>1, <1>2, <1>3, <1>5 DEF AnswerBar, RecordAt, Whole
  <2> QED
    BY <1>1, <1>3, <1>4, <2>1, BarsAreFunctions DEF logVars
<1>6. CASE path[c].name.fmt = "micro"
  <2>1. PICK pid \in Pids, t \in Times : path[c] = Micro(pid, t)
    BY <1>1, <1>6, MicroShape
  <2>2. AnswerBar[c] = None
    BY <1>1, <1>6 DEF AnswerBar
  <2>3. AnswerBar'[c] = [is |-> "read", doc |-> LogBar[path[c]]]
    BY <1>1, <1>2, <1>6 DEF AnswerBar, Effect, LogBar
  <2>4. Log!Found({q \in Log!Paths : LogBar[q] # None}, pid, t) = path[c]
    BY <1>1, <2>1, PresentInLog DEF Micro, Log!Found, Log!Micro, Log!Paths, Log!Names,
                                    Paths, Names
  <2>5. Log!Say(c, "read", LogBar[path[c]])
    BY <1>3, <2>2, <2>3, BarsAreFunctions DEF Log!Say
  <2>6. Log!Read(c, pid, t)
    BY <1>1, <1>3, <1>4, <2>4, <2>5 DEF Log!Read
  <2> QED
    BY <2>1, <2>6 DEF Log!Next
<1> QED
  BY <1>1, <1>5, <1>6

\* A listing is not heard of.
LEMMA ScanLog ==
  ASSUME LogInv, LogInv', [Next]_vars, NEW c \in Calls,
         (\E pid \in Pids : Scan(c, pid)) \/ ScanDone(c)
  PROVE  UNCHANGED logVars
<1>1. /\ pc[c] = "scan" /\ path[c] = None /\ req[c].op = "list_experiments"
      /\ pc'[c] \in {"scan", "done"}
      /\ UNCHANGED <<file, data, req, path, overlapped>>
  BY DEF Scan, ScanDone, Answer, Say, Goto, LogInv, Inv, TypeOK, CallsAreTyped
<1>2. /\ \A d \in Calls \ {c} : AnswerBar'[d] = AnswerBar[d]
      /\ \A d \in Calls \ {c} : WritingBar'[d] = WritingBar[d]
      /\ LogBar' = LogBar
  <2>1. \A d \in Calls \ {c} : /\ pc'[d] = pc[d] /\ req'[d] = req[d]
                                /\ path'[d] = path[d] /\ result'[d] = result[d]
    BY OneCallMoves DEF CallStep
  <2> QED
    BY <1>1, <2>1, Unheard
<1>3. AnswerBar'[c] = AnswerBar[c] /\ WritingBar'[c] = WritingBar[c]
  BY <1>1 DEF AnswerBar, WritingBar, Writing
<1> QED
  BY <1>1, <1>2, <1>3, BarsAreFunctions DEF logVars

\* A failure fails the write and changes no record.
LEMMA FailureLog ==
  ASSUME LogInv, LogInv', [Next]_vars, NEW c \in Calls, MkdirFails(c) \/ WriteFails(c)
  PROVE  Log!Fail(c)
<1>1. /\ pc[c] \in {"open"} \cup Writing
      /\ Answer(c, "tool_error", None) \/ Raise(c)
      /\ UNCHANGED <<file, data, req, path, overlapped>>
  BY DEF MkdirFails, WriteFails, Writing
<1> QED
  BY <1>1, AnswerOfWrite DEF Log!Fail, Log!Say

\* A clean-up is not heard of: the write has failed already.
LEMMA CleanUpLog ==
  ASSUME LogInv, LogInv', [Next]_vars, NEW c \in Calls, CleanUp(c)
  PROVE  UNCHANGED logVars
<1>1. /\ pc[c] = "cleanup" /\ pc'[c] = "done"
      /\ UNCHANGED <<file, data, req, path, result, overlapped>>
  BY DEF CleanUp, Goto, LogInv, Inv, TypeOK
<1>2. /\ \A d \in Calls \ {c} : AnswerBar'[d] = AnswerBar[d]
      /\ \A d \in Calls \ {c} : WritingBar'[d] = WritingBar[d]
      /\ LogBar' = LogBar
  <2>1. \A d \in Calls \ {c} : /\ pc'[d] = pc[d] /\ req'[d] = req[d]
                                /\ path'[d] = path[d] /\ result'[d] = result[d]
    BY OneCallMoves DEF CallStep
  <2> QED
    BY <1>1, <2>1, Unheard
<1>3. AnswerBar'[c] = AnswerBar[c]
  BY <1>1, AnswerKept
<1>4. WritingBar'[c] = WritingBar[c]
  BY <1>1 DEF WritingBar, Writing
<1> QED
  BY <1>1, <1>2, <1>3, <1>4, BarsAreFunctions DEF logVars

\* A restart forgets the writes in flight and changes no record.
LEMMA CrashLog ==
  ASSUME LogInv, LogInv', [Next]_vars, Crash
  PROVE  Log!Restart
<1>1. /\ pc' = [c \in Calls |-> IF pc[c] \in {"idle", "done"} THEN pc[c] ELSE "lost"]
      /\ UNCHANGED <<file, tmp, data, req, path, result, overlapped>>
  BY DEF Crash
<1>2. WritingBar' = [c \in Calls |-> None]
  BY <1>1 DEF WritingBar, Writing
<1>3. LogBar' = LogBar
  BY <1>1 DEF LogBar, RecordAt, Whole
<1>4. \A c \in Calls : AnswerBar'[c] = AnswerBar[c]
  BY <1>1, AnswerKept
<1> QED
  BY <1>1, <1>2, <1>3, <1>4, BarsAreFunctions DEF Log!Restart

\* Every step is a step of the log, or none.
LEMMA StepOfLog == LogInv /\ LogInv' /\ [Next]_vars => [Log!Next]_logVars
<1> SUFFICES ASSUME LogInv, LogInv', [Next]_vars PROVE [Log!Next]_logVars
  OBVIOUS
<1>1. CASE Bootstrap \/ UNCHANGED vars
  <2>1. UNCHANGED <<file, data, pc, req, path, result, overlapped>>
    BY <1>1 DEF Bootstrap, vars
  <2> QED
    BY <2>1 DEF logVars, LogBar, WritingBar, AnswerBar, RecordAt, Whole, Stored
<1>2. ASSUME NEW c \in Calls, NEW r \in Requests, Start(c, r)
      PROVE  [Log!Next]_logVars
  BY <1>2, StartLog
<1>3. ASSUME NEW c \in Calls, OpenTmp(c)
      PROVE  Log!Next
  <2>1. Log!Begin(c, Stored(c)) /\ Stored(c) \in Docs
    BY <1>3, OpenTmpLog
  <2> QED
    BY <2>1 DEF Log!Next, Log!Docs, Docs
<1>4. ASSUME NEW c \in Calls, WriteHead(c) \/ WriteTail(c) \/ Replace(c)
      PROVE  [Log!Next]_logVars
  <2>1. Log!Land(c) \/ Log!Collide(c) \/ Log!Fail(c) \/ UNCHANGED logVars
    BY <1>4, WriteHalfLog, ReplaceLog
  <2> QED
    BY <2>1 DEF Log!Next
<1>5. ASSUME NEW c \in Calls,
             Parse(c) \/ (\E pid \in Pids : Scan(c, pid)) \/ ScanDone(c) \/ CleanUp(c)
      PROVE  [Log!Next]_logVars
  BY <1>5, ParseLog, ScanLog, CleanUpLog
<1>6. ASSUME NEW c \in Calls, MkdirFails(c) \/ WriteFails(c)
      PROVE  Log!Next
  BY <1>6, FailureLog DEF Log!Next
<1>7. CASE Crash
  BY <1>7, CrashLog DEF Log!Next
<1> QED
  BY <1>1, <1>2, <1>3, <1>4, <1>5, <1>6, <1>7 DEF Next, CallStep

\* A notebook starts as a log that holds the records it is found with.
LEMMA InitOfLog == Init => Log!Init
<1> SUFFICES ASSUME Init PROVE Log!Init
  OBVIOUS
<1>1. PICK runs \in FirstRuns :
        /\ file = [p \in Paths |-> IF runs[p] = None THEN None ELSE p]
        /\ data = [i \in Inodes |-> IF i \in Paths THEN WholeOf(runs[i]) ELSE Blank]
  BY DEF Init
<1>2. runs \in [Paths -> Docs \cup {None}]
  BY ExperimentsAssumption, Zenon
<1>3. ASSUME NEW p \in Paths PROVE RecordAt(p) = runs[p]
  <2>1. CASE runs[p] = None
    BY <1>1, <2>1 DEF RecordAt
  <2>2. CASE runs[p] # None
    <3>1. file[p] = p /\ p # None /\ data[p] = WholeOf(runs[p]) /\ runs[p] \in Docs
      BY <1>1, <1>2, <2>2, Apart DEF Inodes
    <3>2. WholeOf(runs[p])[1] = runs[p]
      BY DEF WholeOf, Halves
    <3> QED
      BY <3>1, <3>2 DEF RecordAt, Whole
  <2> QED
    BY <2>1, <2>2
<1>4. LogBar = runs
  BY <1>2, <1>3 DEF LogBar
<1>5. WritingBar = [c \in Calls |-> None] /\ AnswerBar = [c \in Calls |-> None]
  BY DEF Init, WritingBar, AnswerBar, Writing
<1> QED
  BY <1>1, <1>4, <1>5 DEF Init, Log!Init

\* The experiment tools implement the log of records (tools.py:839-847,
\* 898-931, markdown.py:106-116).
THEOREM ExperimentsImplementTheLog == Spec => ImplementsExperimentLog
<1>1. Init => LogInv /\ Log!Init
  BY InitLogInv, InitOfLog
<1> QED
  BY <1>1, StepLogInv, StepOfLog, PTL DEF Spec, ImplementsExperimentLog, Log!Spec, logVars
=============================================================================
