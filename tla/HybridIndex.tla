---------------------------- MODULE HybridIndex ----------------------------
(***************************************************************************)
(* HybridIndexBuilder (embedding/index_builder.py): the two Qdrant         *)
(* collections, the BM25 corpus in memory and its pickle on disk, under a  *)
(* caller that follows the re-indexing protocol of delete_file's docstring *)
(* (delete the file everywhere, then upsert its new chunks and docs).      *)
(*                                                                         *)
(* A file is a <<repo, path>> pair.  A code point, in Qdrant or in BM25,   *)
(* is <<file, slot, rev>>: file and slot (symbol, first line, index, part) *)
(* make up its deterministic id, rev stands for its text and vector.       *)
(* A doc point of Qdrant is such a triple too (type, symbol, first line).  *)
(* An action runs up to the next call of the Qdrant client or of the file  *)
(* system; any of those may raise, and the process may die between them.   *)
(***************************************************************************)
EXTENDS Naturals

CONSTANTS
  TrackedFiles, \* the <<repo, path>> pairs that get indexed
  Slots,        \* identities of chunks, and of doc records, within a file
  Revs,         \* revisions of a file's content, from 1
  SlotsOf,      \* SlotsOf[v]: the chunks revision v of a file is cut into
  DocSlotsOf    \* DocSlotsOf[v]: the doc records of revision v of a file

Gone == 0  \* the revision of a file that was removed

ASSUME HybridIndexAssumption ==
  /\ Revs \subseteq Nat \ {Gone}
  /\ SlotsOf \in [Revs -> SUBSET Slots]
  /\ DocSlotsOf \in [Revs -> SUBSET Slots]

Collections == {"code", "docs"}
Ids == TrackedFiles \X Slots

VARIABLES
  live,    \* collections that exist in Qdrant
  ensured, \* HybridIndexBuilder._ensured_collections
  code,    \* points of the code collection
  docs,    \* points of the docs collection
  bm25,    \* the corpus of HybridIndexBuilder.bm25
  disk,    \* the corpus on disk, as of the last complete save
  intact,  \* is the file on disk a complete pickle
  op,      \* the running operation: where it is, for which file and revision
  done,    \* revision each file's last completed re-index was for
  suspect, \* files with an operation begun and not completed since
  unsaved  \* files changed in the corpus since the last complete save

qdrant == <<live, code, docs>>
mirror == <<disk, intact>>
book   == <<done, suspect, unsaved>>
vars   == <<qdrant, ensured, bm25, mirror, op, book>>

-----------------------------------------------------------------------------
(* Points and corpora.                                                     *)

PointId(p)   == <<p[1], p[2]>>        \* code_point_id, doc_point_id
FileOf(p)    == p[1]
RepoOf(f)    == f[1]
PathOf(f)    == f[2]
Of(index, f) == {p \in index : FileOf(p) = f}

ChunksOf(f, v) == IF v = Gone THEN {} ELSE {<<f, s, v>> : s \in SlotsOf[v]}
DocsOf(f, v)   == IF v = Gone THEN {} ELSE {<<f, s, v>> : s \in DocSlotsOf[v]}

\* Points replace those with their ids.
Upsert(index, points) ==
  {p \in index : \A q \in points : PointId(p) # PointId(q)} \cup points

\* Mutants: the filter lost its file_path condition; BM25 is not deleted from.
DropRepo(index, f)     == {p \in index : RepoOf(FileOf(p)) # RepoOf(f)}
KeepCorpus(index, path) == index

DropFile(index, f) == {p \in index : FileOf(p) # f}

\* BM25Index.remove_where with delete_file's predicate: it looks at the path.
DropPath(index, path) == {p \in index : PathOf(FileOf(p)) # path}

-----------------------------------------------------------------------------
Idle == [at |-> "idle"]
Stages == {"del_code", "del_docs", "del_bm25", "add_bm25", "upsert_code",
           "ensure_docs", "upsert_docs"}
At(stage) == op.at = stage
Go(stage) == op' = [op EXCEPT !.at = stage]

Init ==
  /\ live = {} /\ ensured = {}
  /\ code = {} /\ docs = {} /\ bm25 = {}
  /\ disk = {} /\ intact = TRUE
  /\ op = Idle
  /\ done = [f \in TrackedFiles |-> Gone]
  /\ suspect = {} /\ unsaved = {}

\* The caller turns to a file: its new revision, or that it is gone.
BeginReindex(f, v) ==
  /\ At("idle")
  /\ op' = [at |-> "del_code", file |-> f, rev |-> v]
  /\ suspect' = suspect \cup {f}
  /\ unsaved' = unsaved \cup {f}
  /\ UNCHANGED <<qdrant, ensured, bm25, mirror, done>>

\* An operation is given up when a client call raises; the caller may begin
\* it again.  GiveUp is for a call that took effect and still raised.
GiveUp     == op' = Idle /\ UNCHANGED book
Then(next) == \/ Go(next) /\ UNCHANGED book
              \/ GiveUp

CallRaises ==
  /\ op.at \in (Stages \ {"del_bm25"}) \cup {"recreate_code", "recreate_docs"}
  /\ GiveUp
  /\ UNCHANGED <<qdrant, ensured, bm25, mirror>>

\* Mutant: deleting from a collection that Qdrant lacks passes for done.
SwallowsMissing(collection) == TRUE

\* delete_file on one collection: skipped if it does not exist; but one that
\* the builder remembers having ensured is not checked, and the call raises.
Deletable(collection) == collection \in live \/ collection \notin ensured

DeleteCode ==
  /\ At("del_code")
  /\ Deletable("code")
  /\ code' = DropFile(code, op.file)
  /\ Then("del_docs")
  /\ UNCHANGED <<live, docs, ensured, bm25, mirror>>

DeleteDocs ==
  /\ At("del_docs")
  /\ Deletable("docs")
  /\ docs' = DropFile(docs, op.file)
  /\ Then("del_bm25")
  /\ UNCHANGED <<live, code, ensured, bm25, mirror>>

\* An operation that ran to its end leaves its file as the caller wanted it.
Complete ==
  /\ op' = Idle
  /\ done' = [done EXCEPT ![op.file] = op.rev]
  /\ suspect' = suspect \ {op.file}
  /\ UNCHANGED unsaved

DeleteBm25 ==
  /\ At("del_bm25")
  /\ bm25' = DropPath(bm25, PathOf(op.file))
  /\ IF op.rev = Gone THEN Complete
                      ELSE Go("add_bm25") /\ UNCHANGED book
  /\ UNCHANGED <<qdrant, ensured, mirror>>

\* ensure_collections creates what Qdrant lacks; it may raise at either
\* collection, having created it or not.
EnsureWorks == live' = Collections /\ ensured' = Collections

EnsureRaises ==
  \/ live' = live \cup {"code"} /\ UNCHANGED ensured
  \/ live' \in {live \cup {"code"}, Collections} /\ ensured' = ensured \cup {"code"}

\* upsert_code_chunks up to its client call: ensure_collections, then the loop
\* that feeds BM25.
AddBm25 ==
  /\ At("add_bm25")
  /\ \/ /\ EnsureWorks
        /\ bm25' = Upsert(bm25, ChunksOf(op.file, op.rev))
        /\ Go("upsert_code") /\ UNCHANGED book
     \/ EnsureRaises /\ GiveUp /\ UNCHANGED bm25
  /\ UNCHANGED <<code, docs, mirror>>

UpsertCode ==
  /\ At("upsert_code")
  /\ code' = Upsert(code, ChunksOf(op.file, op.rev))
  /\ Then("ensure_docs")
  /\ UNCHANGED <<live, docs, ensured, bm25, mirror>>

\* upsert_doc_embeddings begins with ensure_collections of its own.
EnsureForDocs ==
  /\ At("ensure_docs")
  /\ \/ EnsureWorks /\ Go("upsert_docs") /\ UNCHANGED book
     \/ EnsureRaises /\ GiveUp
  /\ UNCHANGED <<code, docs, bm25, mirror>>

UpsertDocs ==
  /\ At("upsert_docs")
  /\ docs' = Upsert(docs, DocsOf(op.file, op.rev))
  /\ Complete \/ GiveUp
  /\ UNCHANGED <<live, code, ensured, bm25, mirror>>

-----------------------------------------------------------------------------
\* ensure_collections(recreate=True) drops and creates one collection after
\* the other; the BM25 corpus stays.
BeginRecreate ==
  /\ At("idle")
  /\ op' = [at |-> "recreate_code"]
  /\ suspect' = TrackedFiles
  /\ UNCHANGED <<qdrant, ensured, bm25, mirror, done, unsaved>>

\* The drop works, and the creation works or raises, taking effect or not.
RecreateCode ==
  /\ At("recreate_code")
  /\ code' = {}
  /\ \/ live' = live \cup {"code"} /\ ensured' = ensured \cup {"code"} /\ Go("recreate_docs")
     \/ live' \in {live \ {"code"}, live \cup {"code"}} /\ op' = Idle /\ UNCHANGED ensured
  /\ UNCHANGED <<docs, bm25, mirror, book>>

RecreateDocs ==
  /\ At("recreate_docs")
  /\ docs' = {}
  /\ op' = Idle
  /\ \/ live' = live \cup {"docs"} /\ ensured' = ensured \cup {"docs"}
     \/ live' \in {live \ {"docs"}, live \cup {"docs"}} /\ UNCHANGED ensured
  /\ UNCHANGED <<code, bm25, mirror, book>>

-----------------------------------------------------------------------------
\* BM25Index.save: opening the file for writing empties it, then the pickle
\* is written; pickling may raise with the file as good as empty.
SaveOpens ==
  /\ At("idle")
  /\ op' = [at |-> "dump"]
  /\ intact' = FALSE
  /\ UNCHANGED <<qdrant, ensured, bm25, disk, book>>

SaveDumps ==
  /\ At("dump")
  /\ op' = Idle
  /\ \/ disk' = bm25 /\ intact' = TRUE /\ unsaved' = {}
     \/ UNCHANGED <<mirror, unsaved>>
  /\ UNCHANGED <<qdrant, ensured, bm25, done, suspect>>

\* The process dies and the next one builds a HybridIndexBuilder around the
\* loaded corpus, or around an empty one when the pickle cannot be loaded.
Restart ==
  /\ ensured' = {}
  /\ op' = Idle
  /\ IF intact
     THEN bm25' = disk /\ suspect' = suspect \cup unsaved /\ unsaved' = {}
     ELSE bm25' = {} /\ suspect' = TrackedFiles /\ unsaved' = TrackedFiles
  /\ UNCHANGED <<qdrant, mirror, done>>

-----------------------------------------------------------------------------
ReindexStep ==
  \/ DeleteCode \/ DeleteDocs \/ DeleteBm25
  \/ AddBm25 \/ UpsertCode \/ EnsureForDocs \/ UpsertDocs

Next ==
  \/ \E f \in TrackedFiles, v \in Revs \cup {Gone} : BeginReindex(f, v)
  \/ ReindexStep
  \/ CallRaises
  \/ BeginRecreate \/ RecreateCode \/ RecreateDocs
  \/ SaveOpens \/ SaveDumps \/ Restart

Spec == Init /\ [][Next]_vars

-----------------------------------------------------------------------------
(* Properties.                                                             *)

Operations ==
  {Idle} \cup [at : {"recreate_code", "recreate_docs", "dump"}]
  \cup [at : Stages, file : TrackedFiles, rev : Revs \cup {Gone}]

\* Every variable holds a value the code can give it.
TypeOK ==
  /\ live \subseteq Collections /\ ensured \subseteq Collections
  /\ code \subseteq TrackedFiles \X Slots \X Revs
  /\ docs \subseteq TrackedFiles \X Slots \X Revs
  /\ bm25 \subseteq TrackedFiles \X Slots \X Revs
  /\ disk \subseteq TrackedFiles \X Slots \X Revs
  /\ intact \in BOOLEAN
  /\ op \in Operations
  /\ done \in [TrackedFiles -> Revs \cup {Gone}]
  /\ suspect \subseteq TrackedFiles /\ unsaved \subseteq TrackedFiles

\* A file whose last re-index ran to its end is in all three indexes with
\* exactly the chunks of that revision, whatever calls raised, took effect
\* unseen, or died with the process before: nothing of an older revision, or
\* of an interrupted attempt, outlives the delete-then-upsert protocol, and
\* BM25 and Qdrant can be cross-referenced by id.
SettledFilesAgree ==
  \A f \in TrackedFiles \ suspect :
    /\ Of(code, f) = ChunksOf(f, done[f])
    /\ Of(bm25, f) = ChunksOf(f, done[f])
    /\ Of(docs, f) = DocsOf(f, done[f])

\* While Qdrant lacks a collection that the builder remembers having ensured
\* (a recreation dropped it and failed to create it), no file counts as
\* indexed: the delete that opens every re-index and removal raises, so none
\* runs to its end before the collections are recreated or the process is
\* restarted, and neither hides that the points of all files are gone.
MissingCollectionNoticed == ensured \subseteq live \/ suspect = TrackedFiles

\* Re-indexing a file leaves every other file's points alone: "Remove every
\* point (code + doc + BM25) belonging to one file".
OnlyOwnFileChanges ==
  [][ReindexStep =>
       \A f \in TrackedFiles \ {op.file} :
         /\ Of(code', f) = Of(code, f)
         /\ Of(docs', f) = Of(docs, f)
         /\ Of(bm25', f) = Of(bm25, f)]_vars

\* A corpus that was saved survives a process restart: there is a complete
\* pickle on disk whenever no save is running.
SavedIndexSurvives == intact \/ At("dump")

\* The first step of the re-indexing protocol can succeed.
DeleteFileCanWork == At("del_code") => Deletable("code")
=============================================================================
