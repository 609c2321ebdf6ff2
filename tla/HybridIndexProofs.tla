------------------------- MODULE HybridIndexProofs -------------------------
(***************************************************************************)
(* Type correctness of HybridIndex, and that a settled file is the same in *)
(* all three indexes, for any files, revisions and chunking, provided no   *)
(* two tracked files have the same path: delete_file's predicate on BM25   *)
(* metadata does not look at the repository.                               *)
(***************************************************************************)
EXTENDS HybridIndex, TLAPS

Working == [at : Stages, file : TrackedFiles, rev : Revs \cup {Gone}]

LEMMA WorkingOp ==
  ASSUME TypeOK, op.at \in Stages
  PROVE  op \in Working
  BY DEF TypeOK, Operations, Idle, Stages, Working

LEMMA GoWorks ==
  ASSUME op \in Working, NEW stage \in Stages, Go(stage)
  PROVE  /\ op' \in Working
         /\ op'.at = stage /\ op'.file = op.file /\ op'.rev = op.rev
  BY DEF Working, Go

LEMMA ChunkTypes ==
  ASSUME NEW f \in TrackedFiles, NEW v \in Revs \cup {Gone}
  PROVE  /\ ChunksOf(f, v) \subseteq TrackedFiles \X Slots \X Revs
         /\ DocsOf(f, v) \subseteq TrackedFiles \X Slots \X Revs
  BY HybridIndexAssumption DEF ChunksOf, DocsOf, Gone

LEMMA WorkingIsOperation == Working \subseteq Operations /\ Idle \in Operations
  BY DEF Working, Operations

LEMMA TypeStep == TypeOK /\ [Next]_vars => TypeOK'
<1> SUFFICES ASSUME TypeOK, [Next]_vars PROVE TypeOK'
  OBVIOUS
<1> USE WorkingIsOperation DEF qdrant, mirror, book, At
<1>1. ASSUME NEW f \in TrackedFiles, NEW v \in Revs \cup {Gone}, BeginReindex(f, v)
      PROVE  TypeOK'
  <2>1. op' \in Working
    BY <1>1 DEF BeginReindex, Working, Stages
  <2>2. QED
    BY <1>1, <2>1 DEF TypeOK, BeginReindex
<1>2. CASE CallRaises
  BY <1>2 DEF TypeOK, CallRaises, GiveUp
<1>3. CASE DeleteCode
  <2>1. op' \in Operations
    BY <1>3, WorkingOp, GoWorks DEF DeleteCode, Then, GiveUp, Stages
  <2>2. QED
    BY <1>3, <2>1 DEF TypeOK, DeleteCode, DropFile, Then, GiveUp
<1>4. CASE DeleteDocs
  <2>1. op' \in Operations
    BY <1>4, WorkingOp, GoWorks DEF DeleteDocs, Then, GiveUp, Stages
  <2>2. QED
    BY <1>4, <2>1 DEF TypeOK, DeleteDocs, DropFile, Then, GiveUp
<1>5. CASE DeleteBm25
  <2>1. op \in Working
    BY <1>5, WorkingOp DEF DeleteBm25, Stages
  <2>2. op' \in Operations
    BY <1>5, <2>1, GoWorks DEF DeleteBm25, Complete, Stages
  <2>3. bm25' \subseteq TrackedFiles \X Slots \X Revs
    BY <1>5 DEF TypeOK, DeleteBm25, DropPath
  <2>4. done' \in [TrackedFiles -> Revs \cup {Gone}] /\ suspect' \subseteq TrackedFiles
    BY <1>5, <2>1 DEF TypeOK, DeleteBm25, Complete, Working
  <2>5. QED
    BY <1>5, <2>2, <2>3, <2>4 DEF TypeOK, DeleteBm25, Complete
<1>6. CASE AddBm25
  <2>1. op \in Working
    BY <1>6, WorkingOp DEF AddBm25, Stages
  <2>2. op' \in Operations
    BY <1>6, <2>1, GoWorks DEF AddBm25, GiveUp, Stages
  <2>3. bm25' \subseteq TrackedFiles \X Slots \X Revs
    BY <1>6, <2>1, ChunkTypes DEF TypeOK, AddBm25, Upsert, Working
  <2>4. live' \subseteq Collections /\ ensured' \subseteq Collections
    BY <1>6 DEF TypeOK, AddBm25, EnsureWorks, EnsureRaises, Collections
  <2>5. QED
    BY <1>6, <2>2, <2>3, <2>4 DEF TypeOK, AddBm25, GiveUp
<1>7. CASE UpsertCode
  <2>1. op \in Working
    BY <1>7, WorkingOp DEF UpsertCode, Stages
  <2>2. op' \in Operations
    BY <1>7, <2>1, GoWorks DEF UpsertCode, Then, GiveUp, Stages
  <2>3. code' \subseteq TrackedFiles \X Slots \X Revs
    BY <1>7, <2>1, ChunkTypes DEF TypeOK, UpsertCode, Upsert, Working
  <2>4. QED
    BY <1>7, <2>2, <2>3 DEF TypeOK, UpsertCode, Then, GiveUp
<1>8. CASE EnsureForDocs
  <2>1. op' \in Operations
    BY <1>8, WorkingOp, GoWorks DEF EnsureForDocs, GiveUp, Stages
  <2>2. live' \subseteq Collections /\ ensured' \subseteq Collections
    BY <1>8 DEF TypeOK, EnsureForDocs, EnsureWorks, EnsureRaises, Collections
  <2>3. QED
    BY <1>8, <2>1, <2>2 DEF TypeOK, EnsureForDocs, GiveUp
<1>9. CASE UpsertDocs
  <2>1. op \in Working
    BY <1>9, WorkingOp DEF UpsertDocs, Stages
  <2>2. docs' \subseteq TrackedFiles \X Slots \X Revs
    BY <1>9, <2>1, ChunkTypes DEF TypeOK, UpsertDocs, Upsert, Working
  <2>3. done' \in [TrackedFiles -> Revs \cup {Gone}] /\ suspect' \subseteq TrackedFiles
    BY <1>9, <2>1 DEF TypeOK, UpsertDocs, Complete, GiveUp, Working
  <2>4. QED
    BY <1>9, <2>2, <2>3 DEF TypeOK, UpsertDocs, Complete, GiveUp
<1>10. CASE BeginRecreate
  BY <1>10 DEF TypeOK, BeginRecreate, Operations
<1>11. CASE RecreateCode
  <2>1. op' \in Operations
    BY <1>11 DEF RecreateCode, Go, TypeOK, Operations, Idle, Stages
  <2>2. QED
    BY <1>11, <2>1 DEF TypeOK, RecreateCode, Collections
<1>12. CASE RecreateDocs
  BY <1>12 DEF TypeOK, RecreateDocs, Collections
<1>13. CASE SaveOpens
  BY <1>13 DEF TypeOK, SaveOpens, Operations
<1>14. CASE SaveDumps
  BY <1>14 DEF TypeOK, SaveDumps
<1>15. CASE Restart
  BY <1>15 DEF TypeOK, Restart
<1>16. CASE UNCHANGED vars
  BY <1>16 DEF TypeOK, vars
<1>17. QED
  BY <1>1, <1>2, <1>3, <1>4, <1>5, <1>6, <1>7, <1>8, <1>9, <1>10, <1>11, <1>12, <1>13,
     <1>14, <1>15, <1>16 DEF Next, ReindexStep

\* Every variable of the index builder keeps to its type.
THEOREM TypeCorrect == Spec => []TypeOK
<1>1. Init => TypeOK
  BY DEF Init, TypeOK, Operations
<1>2. QED
  BY <1>1, TypeStep, PTL DEF Spec

-----------------------------------------------------------------------------
(* What deletes and upserts do to the points of one file and of the others. *)

NoSharedPaths == \A f, g \in TrackedFiles : PathOf(f) = PathOf(g) => f = g

LEMMA OfDropFile ==
  ASSUME NEW index, NEW f, NEW g
  PROVE  /\ Of(DropFile(index, f), f) = {}
         /\ g # f => Of(DropFile(index, f), g) = Of(index, g)
  BY DEF Of, DropFile

LEMMA OfDropPath ==
  ASSUME NoSharedPaths, NEW index, NEW f \in TrackedFiles, NEW g \in TrackedFiles
  PROVE  /\ Of(DropPath(index, PathOf(f)), f) = {}
         /\ g # f => Of(DropPath(index, PathOf(f)), g) = Of(index, g)
  BY DEF Of, DropPath, NoSharedPaths

LEMMA OfChunks ==
  ASSUME NEW f, NEW v
  PROVE  /\ \A p \in ChunksOf(f, v) : FileOf(p) = f
         /\ \A p \in DocsOf(f, v) : FileOf(p) = f
  BY DEF ChunksOf, DocsOf, FileOf

LEMMA OfUpsert ==
  ASSUME NEW index, NEW f, NEW v, NEW g
  PROVE  /\ Of(index, f) = {} => Of(Upsert(index, ChunksOf(f, v)), f) = ChunksOf(f, v)
         /\ Of(index, f) = {} => Of(Upsert(index, DocsOf(f, v)), f) = DocsOf(f, v)
         /\ g # f => Of(Upsert(index, ChunksOf(f, v)), g) = Of(index, g)
         /\ g # f => Of(Upsert(index, DocsOf(f, v)), g) = Of(index, g)
<1>1. ASSUME Of(index, f) = {}
      PROVE  /\ Of(Upsert(index, ChunksOf(f, v)), f) = ChunksOf(f, v)
             /\ Of(Upsert(index, DocsOf(f, v)), f) = DocsOf(f, v)
  BY <1>1, OfChunks DEF Of, Upsert
<1>2. ASSUME g # f
      PROVE  /\ Of(Upsert(index, ChunksOf(f, v)), g) = Of(index, g)
             /\ Of(Upsert(index, DocsOf(f, v)), g) = Of(index, g)
  BY <1>2, OfChunks DEF Of, Upsert, PointId, FileOf
<1>3. QED
  BY <1>1, <1>2

-----------------------------------------------------------------------------
(* The inductive invariant: what the running operation has done so far, and *)
(* what a restart would find.                                               *)

OpProgress ==
  op.at \in Stages =>
    /\ op.file \in suspect /\ op.file \in unsaved
    /\ op.at \in {"del_docs", "del_bm25", "add_bm25", "upsert_code"} => Of(code, op.file) = {}
    /\ op.at \in {"del_bm25", "add_bm25", "upsert_code", "ensure_docs", "upsert_docs"} =>
         Of(docs, op.file) = {}
    /\ op.at = "add_bm25" => Of(bm25, op.file) = {}
    /\ op.at \in {"upsert_code", "ensure_docs", "upsert_docs"} =>
         Of(bm25, op.file) = ChunksOf(op.file, op.rev)
    /\ op.at \in {"ensure_docs", "upsert_docs"} =>
         Of(code, op.file) = ChunksOf(op.file, op.rev)

RecreateSuspectsAll ==
  op.at \in {"recreate_code", "recreate_docs"} => suspect = TrackedFiles

SavedFilesAgree ==
  intact => \A f \in TrackedFiles \ (suspect \cup unsaved) :
              Of(disk, f) = ChunksOf(f, done[f])

IInv == TypeOK /\ SettledFilesAgree /\ OpProgress /\ RecreateSuspectsAll /\ SavedFilesAgree

LEMMA GaveUp ==
  ASSUME GiveUp
  PROVE  OpProgress' /\ RecreateSuspectsAll'
  BY DEF GiveUp, OpProgress, RecreateSuspectsAll, Idle, Stages

LEMMA SettledStep ==
  ASSUME NoSharedPaths
  PROVE  IInv /\ [Next]_vars => IInv'
<1> SUFFICES ASSUME IInv, [Next]_vars
             PROVE  SettledFilesAgree' /\ OpProgress' /\ RecreateSuspectsAll' /\ SavedFilesAgree'
  BY TypeStep DEF IInv
<1>a. TypeOK
  BY DEF IInv
<1> USE DEF qdrant, mirror, book, At
<1>1. ASSUME NEW f \in TrackedFiles, NEW v \in Revs \cup {Gone}, BeginReindex(f, v)
      PROVE  SettledFilesAgree' /\ OpProgress' /\ RecreateSuspectsAll' /\ SavedFilesAgree'
  BY <1>1 DEF BeginReindex, IInv, SettledFilesAgree, OpProgress, RecreateSuspectsAll,
              SavedFilesAgree, Stages
<1>2. CASE CallRaises
  BY <1>2, GaveUp DEF CallRaises, GiveUp, IInv, SettledFilesAgree, SavedFilesAgree
<1>3. CASE DeleteCode
  <2>1. op \in Working /\ UNCHANGED <<docs, bm25, disk, intact, done, suspect, unsaved>>
    BY <1>a, <1>3, WorkingOp DEF DeleteCode, Then, GiveUp, Stages
  <2>2. SettledFilesAgree' /\ SavedFilesAgree'
    BY <1>3, <2>1, OfDropFile DEF DeleteCode, IInv, SettledFilesAgree, SavedFilesAgree,
                                  OpProgress, Stages
  <2>3. OpProgress' /\ RecreateSuspectsAll'
    BY <1>3, <2>1, OfDropFile, GoWorks, GaveUp
       DEF DeleteCode, Then, IInv, OpProgress, RecreateSuspectsAll, Stages
  <2>4. QED
    BY <2>2, <2>3
<1>4. CASE DeleteDocs
  <2>1. op \in Working /\ UNCHANGED <<code, bm25, disk, intact, done, suspect, unsaved>>
    BY <1>a, <1>4, WorkingOp DEF DeleteDocs, Then, GiveUp, Stages
  <2>2. SettledFilesAgree' /\ SavedFilesAgree'
    BY <1>4, <2>1, OfDropFile DEF DeleteDocs, IInv, SettledFilesAgree, SavedFilesAgree,
                                  OpProgress, Stages
  <2>3. OpProgress' /\ RecreateSuspectsAll'
    BY <1>4, <2>1, OfDropFile, GoWorks, GaveUp
       DEF DeleteDocs, Then, IInv, OpProgress, RecreateSuspectsAll, Stages
  <2>4. QED
    BY <2>2, <2>3
<1>5. CASE DeleteBm25
  <2>1. op \in Working /\ UNCHANGED <<code, docs, disk, intact, unsaved>>
    BY <1>a, <1>5, WorkingOp DEF DeleteBm25, Complete, Stages
  <2>2. op.file \in TrackedFiles
    BY <2>1 DEF Working
  <2>3. op.file \in suspect /\ op.file \in unsaved
        /\ Of(code, op.file) = {} /\ Of(docs, op.file) = {} /\ Of(bm25', op.file) = {}
    BY <1>5, <2>2, OfDropPath DEF DeleteBm25, IInv, OpProgress, Stages
  <2>4. \A g \in TrackedFiles \ {op.file} : Of(bm25', g) = Of(bm25, g)
    BY <1>5, <2>2, OfDropPath DEF DeleteBm25
  <2>5. CASE op.rev = Gone
    <3>0. suspect' = suspect \ {op.file} /\ done' = [done EXCEPT ![op.file] = Gone]
      BY <1>5, <2>5 DEF DeleteBm25, Complete
    <3>1. ASSUME NEW g \in TrackedFiles \ suspect'
          PROVE  /\ Of(code', g) = ChunksOf(g, done'[g])
                 /\ Of(bm25', g) = ChunksOf(g, done'[g])
                 /\ Of(docs', g) = DocsOf(g, done'[g])
      <4>1. CASE g = op.file
        BY <2>1, <2>3, <3>0, <4>1, <1>a DEF TypeOK, ChunksOf, DocsOf
      <4>2. CASE g # op.file
        BY <2>1, <2>4, <3>0, <3>1, <4>2, <1>a DEF TypeOK, IInv, SettledFilesAgree
      <4>3. QED
        BY <4>1, <4>2
    <3>2. SavedFilesAgree' /\ OpProgress' /\ RecreateSuspectsAll'
      BY <1>5, <2>1, <2>2, <2>3, <2>5, <1>a
         DEF DeleteBm25, Complete, IInv, SavedFilesAgree, OpProgress, RecreateSuspectsAll,
             Idle, Stages, TypeOK
    <3>3. QED
      BY <3>1, <3>2 DEF SettledFilesAgree
  <2>6. CASE op.rev # Gone
    <3>1. SettledFilesAgree' /\ SavedFilesAgree'
      BY <1>5, <2>1, <2>3, <2>4, <2>6
         DEF DeleteBm25, IInv, SettledFilesAgree, SavedFilesAgree
    <3>2. OpProgress' /\ RecreateSuspectsAll'
      BY <1>5, <2>1, <2>3, <2>6, GoWorks
         DEF DeleteBm25, OpProgress, RecreateSuspectsAll, Stages
    <3>3. QED
      BY <3>1, <3>2
  <2>7. QED
    BY <2>5, <2>6
<1>6. CASE AddBm25
  <2>1. op \in Working /\ UNCHANGED <<code, docs, disk, intact, done, suspect, unsaved>>
    BY <1>a, <1>6, WorkingOp DEF AddBm25, GiveUp, Stages
  <2>2. op.file \in suspect /\ op.file \in unsaved /\ Of(code, op.file) = {}
        /\ Of(docs, op.file) = {} /\ Of(bm25, op.file) = {}
    BY <1>6 DEF AddBm25, IInv, OpProgress, Stages
  <2>3. SettledFilesAgree' /\ SavedFilesAgree'
    BY <1>6, <2>1, <2>2, OfUpsert DEF AddBm25, IInv, SettledFilesAgree, SavedFilesAgree
  <2>4. OpProgress' /\ RecreateSuspectsAll'
    BY <1>6, <2>1, <2>2, OfUpsert, GoWorks, GaveUp
       DEF AddBm25, OpProgress, RecreateSuspectsAll, Stages
  <2>5. QED
    BY <2>3, <2>4
<1>7. CASE UpsertCode
  <2>1. op \in Working /\ UNCHANGED <<docs, bm25, disk, intact, done, suspect, unsaved>>
    BY <1>a, <1>7, WorkingOp DEF UpsertCode, Then, GiveUp, Stages
  <2>2. op.file \in suspect /\ op.file \in unsaved /\ Of(code, op.file) = {}
        /\ Of(docs, op.file) = {} /\ Of(bm25, op.file) = ChunksOf(op.file, op.rev)
    BY <1>7 DEF UpsertCode, IInv, OpProgress, Stages
  <2>3. SettledFilesAgree' /\ SavedFilesAgree'
    BY <1>7, <2>1, <2>2, OfUpsert DEF UpsertCode, IInv, SettledFilesAgree, SavedFilesAgree
  <2>4. OpProgress' /\ RecreateSuspectsAll'
    BY <1>7, <2>1, <2>2, OfUpsert, GoWorks, GaveUp
       DEF UpsertCode, Then, OpProgress, RecreateSuspectsAll, Stages
  <2>5. QED
    BY <2>3, <2>4
<1>8. CASE EnsureForDocs
  <2>1. op \in Working /\ UNCHANGED <<code, docs, bm25, disk, intact, done, suspect, unsaved>>
    BY <1>a, <1>8, WorkingOp DEF EnsureForDocs, GiveUp, Stages
  <2>2. SettledFilesAgree' /\ SavedFilesAgree'
    BY <2>1 DEF IInv, SettledFilesAgree, SavedFilesAgree
  <2>3. OpProgress' /\ RecreateSuspectsAll'
    BY <1>8, <2>1, GoWorks, GaveUp
       DEF EnsureForDocs, IInv, OpProgress, RecreateSuspectsAll, Stages
  <2>4. QED
    BY <2>2, <2>3
<1>9. CASE UpsertDocs
  <2>1. op \in Working /\ UNCHANGED <<code, bm25, disk, intact, unsaved>>
    BY <1>a, <1>9, WorkingOp DEF UpsertDocs, Complete, GiveUp, Stages
  <2>2. op.file \in suspect /\ op.file \in unsaved /\ op.file \in TrackedFiles
        /\ Of(code, op.file) = ChunksOf(op.file, op.rev)
        /\ Of(bm25, op.file) = ChunksOf(op.file, op.rev) /\ Of(docs, op.file) = {}
    BY <1>9, <2>1 DEF UpsertDocs, IInv, OpProgress, Stages, Working
  <2>3. /\ Of(docs', op.file) = DocsOf(op.file, op.rev)
        /\ \A g \in TrackedFiles \ {op.file} : Of(docs', g) = Of(docs, g)
    BY <1>9, <2>2, OfUpsert DEF UpsertDocs
  <2>4. CASE GiveUp
    BY <2>1, <2>2, <2>3, <2>4, GaveUp
       DEF GiveUp, IInv, SettledFilesAgree, SavedFilesAgree
  <2>5. CASE Complete
    <3>1. suspect' = suspect \ {op.file} /\ done' = [done EXCEPT ![op.file] = op.rev]
      BY <2>5 DEF Complete
    <3>2. ASSUME NEW g \in TrackedFiles \ suspect'
          PROVE  /\ Of(code', g) = ChunksOf(g, done'[g])
                 /\ Of(bm25', g) = ChunksOf(g, done'[g])
                 /\ Of(docs', g) = DocsOf(g, done'[g])
      <4>1. CASE g = op.file
        BY <2>1, <2>2, <2>3, <3>1, <4>1, <1>a DEF TypeOK
      <4>2. CASE g # op.file
        BY <2>1, <2>3, <3>1, <3>2, <4>2, <1>a DEF TypeOK, IInv, SettledFilesAgree
      <4>3. QED
        BY <4>1, <4>2
    <3>3. SavedFilesAgree'
      BY <2>1, <2>2, <3>1, <1>a DEF IInv, SavedFilesAgree, TypeOK
    <3>4. OpProgress' /\ RecreateSuspectsAll'
      BY <2>5 DEF Complete, OpProgress, RecreateSuspectsAll, Idle, Stages
    <3>5. QED
      BY <3>2, <3>3, <3>4 DEF SettledFilesAgree
  <2>6. QED
    BY <1>9, <2>4, <2>5 DEF UpsertDocs
<1>10. CASE BeginRecreate
  BY <1>10 DEF BeginRecreate, SettledFilesAgree, OpProgress, RecreateSuspectsAll,
              SavedFilesAgree, Stages
<1>11. CASE RecreateCode \/ RecreateDocs
  <2>1. suspect = TrackedFiles /\ UNCHANGED <<disk, intact, done, suspect, unsaved>>
    BY <1>11 DEF RecreateCode, RecreateDocs, IInv, RecreateSuspectsAll
  <2>2. op'.at \in {"idle", "recreate_docs"}
    BY <1>11, <1>a DEF RecreateCode, RecreateDocs, Go, Idle, TypeOK, Operations, Stages
  <2>3. QED
    BY <2>1, <2>2 DEF SettledFilesAgree, OpProgress, RecreateSuspectsAll,
                      SavedFilesAgree, Stages
<1>12. CASE SaveOpens
  BY <1>12 DEF SaveOpens, IInv, SettledFilesAgree, OpProgress, RecreateSuspectsAll,
               SavedFilesAgree, Stages
<1>13. CASE SaveDumps
  BY <1>13 DEF SaveDumps, IInv, SettledFilesAgree, OpProgress, RecreateSuspectsAll,
               SavedFilesAgree, Idle, Stages
<1>14. CASE Restart
  BY <1>14, <1>a DEF Restart, IInv, SettledFilesAgree, OpProgress, RecreateSuspectsAll,
               SavedFilesAgree, Idle, Stages, TypeOK
<1>15. CASE UNCHANGED vars
  BY <1>15 DEF vars, IInv, SettledFilesAgree, OpProgress, RecreateSuspectsAll, SavedFilesAgree
<1>16. QED
  BY <1>1, <1>2, <1>3, <1>4, <1>5, <1>6, <1>7, <1>8, <1>9, <1>10, <1>11, <1>12, <1>13, <1>14,
     <1>15 DEF Next, ReindexStep

\* As long as no two tracked files share a path, a file whose last re-index
\* completed is the same in all three indexes.
THEOREM SettledCorrect ==
  ASSUME NoSharedPaths
  PROVE  Spec => []SettledFilesAgree
<1>1. Init => IInv
  BY DEF Init, IInv, TypeOK, Operations, SettledFilesAgree, OpProgress, RecreateSuspectsAll,
         SavedFilesAgree, Of, ChunksOf, DocsOf, Idle, Stages
<1>2. IInv => SettledFilesAgree
  BY DEF IInv
<1>3. QED
  BY <1>1, <1>2, SettledStep, PTL DEF Spec

-----------------------------------------------------------------------------
(* Collections, and other files.                                           *)

\* Past the delete from a collection, Qdrant has it or the builder does not
\* remember it.
DeletesWorked ==
  /\ op.at \in Stages \ {"del_code"} => Deletable("code")
  /\ op.at \in Stages \ {"del_code", "del_docs"} => Deletable("docs")

Noticed == MissingCollectionNoticed /\ RecreateSuspectsAll /\ DeletesWorked

LEMMA NoticedStep ==
  ASSUME TypeOK, Noticed, [Next]_vars
  PROVE  Noticed'
<1> USE DEF Noticed, MissingCollectionNoticed, RecreateSuspectsAll, DeletesWorked, Deletable,
            At, Stages, qdrant, book
<1>0. ensured \subseteq Collections /\ suspect \subseteq TrackedFiles
  BY DEF TypeOK
<1>1. CASE DeleteCode \/ DeleteDocs
  <2>1. op \in Working
    BY <1>1, WorkingOp DEF DeleteCode, DeleteDocs
  <2>2. QED
    BY <1>1, <2>1, GoWorks DEF DeleteCode, DeleteDocs, Then, GiveUp, Idle
<1>2. CASE DeleteBm25
  <2>1. op \in Working
    BY <1>2, WorkingOp DEF DeleteBm25
  <2>2. ensured \subseteq live /\ UNCHANGED <<live, ensured>>
    BY <1>0, <1>2 DEF DeleteBm25, Collections
  <2>3. op'.at \in {"idle", "add_bm25"}
    BY <1>2, <2>1, GoWorks DEF DeleteBm25, Complete, Idle
  <2>4. QED
    BY <2>2, <2>3
<1>3. CASE AddBm25 \/ EnsureForDocs
  <2>1. op \in Working
    BY <1>3, WorkingOp DEF AddBm25, EnsureForDocs
  <2>2. UNCHANGED suspect
    BY <1>3 DEF AddBm25, EnsureForDocs, GiveUp
  <2>3. CASE EnsureWorks
    BY <1>3, <2>1, <2>2, <2>3, GoWorks
       DEF AddBm25, EnsureForDocs, EnsureWorks, GiveUp, Collections, Idle
  <2>4. CASE EnsureRaises /\ GiveUp
    BY <1>0, <1>3, <2>2, <2>4 DEF AddBm25, EnsureForDocs, EnsureRaises, GiveUp, Collections, Idle
  <2>5. QED
    BY <1>3, <2>3, <2>4 DEF AddBm25, EnsureForDocs
<1>4. CASE UpsertCode \/ UpsertDocs
  <2>1. op \in Working
    BY <1>4, WorkingOp DEF UpsertCode, UpsertDocs
  <2>2. ensured \subseteq live /\ UNCHANGED <<live, ensured>>
    BY <1>0, <1>4 DEF UpsertCode, UpsertDocs, Collections
  <2>3. op'.at \in {"idle", "ensure_docs"}
    BY <1>4, <2>1, GoWorks DEF UpsertCode, UpsertDocs, Then, GiveUp, Complete, Idle
  <2>4. QED
    BY <2>2, <2>3
<1>5. CASE RecreateCode
  <2>1. op'.at \in {"idle", "recreate_docs"} /\ suspect' = TrackedFiles
    BY <1>5 DEF RecreateCode, Go, Idle, TypeOK, Operations
  <2>2. QED
    BY <2>1
<1>6. CASE RecreateDocs
  BY <1>6 DEF RecreateDocs, Idle
<1>7. CASE Restart \/ SaveDumps \/ CallRaises
  BY <1>7 DEF Restart, SaveDumps, CallRaises, GiveUp, Idle
<1>8. CASE BeginRecreate \/ SaveOpens
  BY <1>8 DEF BeginRecreate, SaveOpens
<1>9. CASE \E f \in TrackedFiles, v \in Revs \cup {Gone} : BeginReindex(f, v)
  BY <1>0, <1>9 DEF BeginReindex
<1>10. CASE UNCHANGED vars
  BY <1>10 DEF vars
<1>11. QED
  BY <1>1, <1>2, <1>3, <1>4, <1>5, <1>6, <1>7, <1>8, <1>9, <1>10 DEF Next, ReindexStep

\* No file counts as indexed while Qdrant lacks a collection that the builder
\* remembers having ensured.
THEOREM MissingNoticedCorrect == Spec => []MissingCollectionNoticed
<1>1. Init => Noticed
  BY DEF Init, Idle, Stages, Noticed, MissingCollectionNoticed, RecreateSuspectsAll, DeletesWorked
<1>2. TypeOK /\ Noticed /\ [Next]_vars => Noticed'
  BY NoticedStep
<1>3. Noticed => MissingCollectionNoticed
  BY DEF Noticed
<1>4. QED
  BY <1>1, <1>2, <1>3, TypeCorrect, PTL DEF Spec

\* The builder's steps for one file leave every other file's points alone, as
\* long as the other file has another path.
THEOREM OtherFilesKept ==
  ASSUME NoSharedPaths
  PROVE  Spec => OnlyOwnFileChanges
<1> DEFINE Alone == \A f \in TrackedFiles \ {op.file} :
                      /\ Of(code', f) = Of(code, f)
                      /\ Of(docs', f) = Of(docs, f)
                      /\ Of(bm25', f) = Of(bm25, f)
<1>1. ASSUME TypeOK, ReindexStep PROVE Alone
  <2>1. op.at \in Stages
    BY <1>1 DEF ReindexStep, DeleteCode, DeleteDocs, DeleteBm25, AddBm25, UpsertCode, EnsureForDocs,
       UpsertDocs, At, Stages
  <2>2. op.file \in TrackedFiles
    BY <1>1, <2>1, WorkingOp DEF Working
  <2>3. CASE DeleteCode \/ DeleteDocs
    BY <2>3, OfDropFile DEF DeleteCode, DeleteDocs
  <2>4. CASE DeleteBm25
    BY <2>2, <2>4, OfDropPath DEF DeleteBm25, qdrant
  <2>5. CASE AddBm25
    BY <2>5, OfUpsert DEF AddBm25
  <2>6. CASE UpsertCode
    BY <2>6, OfUpsert DEF UpsertCode
  <2>7. CASE UpsertDocs
    BY <2>7, OfUpsert DEF UpsertDocs
  <2>8. CASE EnsureForDocs
    BY <2>8 DEF EnsureForDocs
  <2>9. QED
    BY <1>1, <2>3, <2>4, <2>5, <2>6, <2>7, <2>8 DEF ReindexStep
<1>2. TypeOK => [ReindexStep => Alone]_vars
  BY <1>1
<1>3. QED
  BY <1>2, TypeCorrect, PTL DEF OnlyOwnFileChanges
=============================================================================
