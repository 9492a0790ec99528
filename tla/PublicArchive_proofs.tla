------------------------ MODULE PublicArchive_proofs ------------------------
(***************************************************************************)
(* Files between S3 and the database: no commit leaves an object without   *)
(* its row or a row without its object, nothing points to what is gone,    *)
(* and a file that is known to be an archive's stays its file.             *)
(***************************************************************************)
EXTENDS PublicArchive, TLAPS

(* What each handler has in hand.                                          *)
HandlerOK(t) ==
  /\ tx[t].had \subseteq saved
  /\ tx[t].pending \subseteq Removed(t)
  /\ Removed(t) \subseteq gone \cup tx[t].pending
  /\ tx[t].op \in {"none", "upload", "create"} => tx[t].had = {}
  /\ tx[t].op \in {"none", "delete"} => tx[t].ids = {}
  /\ tx[t].op = "upload" => tx[t].ids \subseteq put
  /\ tx[t].op # "update" => tx[t].ok
  /\ tx[t].op \in {"update", "delete"} => tx[t].archive \in created
  /\ tx[t].op = "create" =>
       /\ tx[t].archive \in Archives \ created
       /\ \A s \in Threads \ {t} : tx[s].archive # tx[t].archive

(* Where an object that is gone without its row went.                      *)
GoneAccounted ==
  \A f \in gone \ dropped : f \in lost \/ \E t \in Threads : f \in Removed(t)

(* A row is inserted without an archive.                                   *)
Unlinked == \A f \in Files \ saved : link[f] = NoArchive

(* The strengthening of the safety invariants that every step keeps.       *)
Filing ==
  /\ TypeOK /\ NothingLeftBehind /\ GoneAccounted /\ NoDanglingLink /\ Unlinked
  /\ \A t \in Threads : HandlerOK(t)

LEMMA IdleTyped == Idle \in Tx
BY DEF Idle, Tx

(* What a step of t leaves of the other handlers.                          *)
LEMMA OthersKept ==
  ASSUME Filing, NEW t \in Threads, NEW w \in Tx, tx' = [tx EXCEPT ![t] = w],
         put \subseteq put', gone \subseteq gone', saved \subseteq saved',
         \/ created' = created
         \/ tx[t].op = "create" /\ created' = created \cup {tx[t].archive},
         \A s \in Threads \ {t} : tx[s].op = "create" => w.archive # tx[s].archive
  PROVE  /\ tx' \in [Threads -> Tx] /\ tx'[t] = w
         /\ \A s \in Threads \ {t} : tx'[s] = tx[s] /\ HandlerOK(s)'
<1>1. tx' \in [Threads -> Tx] /\ tx'[t] = w /\ \A s \in Threads \ {t} : tx'[s] = tx[s]
  BY DEF Filing, TypeOK
<1>2. ASSUME NEW s \in Threads \ {t} PROVE HandlerOK(s)'
  <2>1. tx'[s] = tx[s] /\ HandlerOK(s)
    BY <1>1, <1>2 DEF Filing
  <2>2. tx[t].op = "create" => tx[s].archive # tx[t].archive
    BY <1>2 DEF Filing, HandlerOK
  <2>3. tx[s].op = "create" => \A r \in Threads \ {s} : tx'[r].archive # tx[s].archive
    <3> SUFFICES ASSUME tx[s].op = "create", NEW r \in Threads \ {s}
                 PROVE  tx'[r].archive # tx[s].archive
      OBVIOUS
    <3>1. CASE r = t
      BY <1>1, <3>1
    <3>2. CASE r # t
      BY <1>1, <2>1, <3>2 DEF HandlerOK
    <3> QED
      BY <3>1, <3>2
  <2> QED
    BY <2>1, <2>2, <2>3 DEF HandlerOK, Removed
<1> QED
  BY <1>1, <1>2

(* The step that ends a handler.                                           *)
LEMMA FinishKept ==
  ASSUME Filing, NEW t \in Threads, Finish(t),
         put \subseteq put', gone \subseteq gone', saved \subseteq saved',
         \/ created' = created
         \/ tx[t].op = "create" /\ created' = created \cup {tx[t].archive}
  PROVE  /\ tx' \in [Threads -> Tx] /\ tx'[t] = Idle
         /\ \A s \in Threads \ {t} : tx'[s] = tx[s]
         /\ \A s \in Threads : HandlerOK(s)'
<1>1. tx' = [tx EXCEPT ![t] = Idle] /\ Idle \in Tx
  BY IdleTyped DEF Finish
<1>2. \A s \in Threads \ {t} : tx[s].op = "create" => Idle.archive # tx[s].archive
  BY NullAssumption DEF Filing, HandlerOK, Idle
<1>3. /\ tx' \in [Threads -> Tx] /\ tx'[t] = Idle
      /\ \A s \in Threads \ {t} : tx'[s] = tx[s] /\ HandlerOK(s)'
  BY <1>1, <1>2, OthersKept
<1>4. HandlerOK(t)'
  BY <1>3 DEF HandlerOK, Removed, Idle
<1> QED
  BY <1>3, <1>4

(* The step that begins one.                                               *)
LEMMA BeginKept ==
  ASSUME Filing, NEW t \in Threads, NEW op \in {"upload", "create", "update", "delete"},
         NEW a \in Archives \cup {NoArchive}, NEW ids \in SUBSET Files,
         NEW had \in SUBSET saved, NEW ok \in BOOLEAN,
         Begin(t, op, a, ids, had, ok),
         op \in {"upload", "create"} => had = {},
         op = "delete" => ids = {},
         op = "upload" => ids \subseteq put' /\ a = NoArchive,
         op # "update" => ok,
         op \in {"update", "delete"} => a \in created,
         op = "create" =>
           /\ a \in Archives \ created /\ \A s \in Threads : tx[s].archive # a,
         put \subseteq put', gone' = gone, saved' = saved, created' = created
  PROVE  /\ tx' \in [Threads -> Tx]
         /\ tx'[t] = [op |-> op, archive |-> a, ids |-> ids, had |-> had,
                      pending |-> had \ ids, ok |-> ok]
         /\ \A s \in Threads \ {t} : tx'[s] = tx[s]
         /\ tx[t] = Idle
         /\ \A s \in Threads : HandlerOK(s)'
<1> DEFINE w == [op |-> op, archive |-> a, ids |-> ids, had |-> had,
                 pending |-> had \ ids, ok |-> ok]
<1>1. tx' = [tx EXCEPT ![t] = w] /\ tx[t] = Idle
  BY DEF Begin
<1>2. w \in Tx
  <2> saved \subseteq Files
    BY DEF Filing, TypeOK
  <2> QED
    BY DEF Tx
<1>3. /\ w.op = op /\ w.archive = a /\ w.ids = ids /\ w.had = had
      /\ w.pending = had \ ids /\ w.ok = ok
  OBVIOUS
<1>4. \A s \in Threads \ {t} : tx[s].op = "create" => w.archive # tx[s].archive
  BY <1>3, NullAssumption DEF Filing, HandlerOK
<1> HIDE DEF w
<1>5. /\ tx' \in [Threads -> Tx] /\ tx'[t] = w
      /\ \A s \in Threads \ {t} : tx'[s] = tx[s] /\ HandlerOK(s)'
  BY <1>1, <1>2, <1>4, OthersKept
<1>6. HandlerOK(t)'
  BY <1>3, <1>5 DEF HandlerOK, Removed
<1> QED
  BY <1>1, <1>5, <1>6 DEF w

(* A call that begins writes nothing but, for an upload, the object.       *)
LEMMA NothingWritten ==
  ASSUME Filing, NEW t \in Threads, tx[t] = Idle,
         tx' \in [Threads -> Tx], \A s \in Threads \ {t} : tx'[s] = tx[s],
         \A s \in Threads : HandlerOK(s)',
         put \subseteq put', put' \subseteq Files, gone' = gone, lost' = lost, UNCHANGED db
  PROVE  Filing'
<1>1. TypeOK' /\ NothingLeftBehind' /\ NoDanglingLink' /\ Unlinked'
  BY DEF Filing, TypeOK, NothingLeftBehind, NoDanglingLink, Unlinked, db, Rows, Live
<1>2. GoneAccounted'
  <2> SUFFICES ASSUME NEW f \in gone \ dropped, f \notin lost
               PROVE  \E s \in Threads : f \in Removed(s)'
    BY DEF GoneAccounted, db
  <2>1. PICK s \in Threads : f \in Removed(s)
    BY DEF Filing, GoneAccounted
  <2>2. s # t
    BY <2>1 DEF Removed, Idle
  <2> QED
    BY <2>1, <2>2 DEF Removed
<1> QED
  BY <1>1, <1>2 DEF Filing

LEMMA CallKept ==
  ASSUME Filing, NEW t \in Threads, Call(t)
  PROVE  Filing'
<1>1. ASSUME NEW f \in Files, UploadFileS3(t, f) PROVE Filing'
  <2>1. /\ Begin(t, "upload", NoArchive, {f}, {}, TRUE) /\ put' = put \cup {f}
        /\ gone' = gone /\ lost' = lost /\ UNCHANGED db
    BY <1>1 DEF UploadFileS3
  <2>2. /\ tx' \in [Threads -> Tx] /\ tx[t] = Idle
        /\ \A s \in Threads \ {t} : tx'[s] = tx[s]
        /\ \A s \in Threads : HandlerOK(s)'
    BY <2>1, BeginKept DEF db
  <2> QED
    BY <2>1, <2>2, NothingWritten DEF Filing, TypeOK
<1>2. ASSUME NEW a \in Archives, NEW ids \in SUBSET Files, CreatePublicArchive(t, a, ids)
      PROVE  Filing'
  <2>1. /\ Begin(t, "create", a, ids, {}, TRUE)
        /\ a \in Archives \ created /\ \A s \in Threads : tx[s].archive # a
        /\ put' = put /\ gone' = gone /\ lost' = lost /\ UNCHANGED db
    BY <1>2 DEF CreatePublicArchive, s3
  <2>2. /\ tx' \in [Threads -> Tx] /\ tx[t] = Idle
        /\ \A s \in Threads \ {t} : tx'[s] = tx[s]
        /\ \A s \in Threads : HandlerOK(s)'
    BY <2>1, BeginKept DEF db
  <2> QED
    BY <2>1, <2>2, NothingWritten DEF Filing, TypeOK
<1>3. ASSUME NEW a \in Archives, NEW ids \in SUBSET Files, UpdatePublicArchive(t, a, ids)
      PROVE  Filing'
  <2> DEFINE had == FilesOf(a)
  <2>1. Begin(t, "update", a, ids, had, TRUE) \/ Begin(t, "update", a, ids, had, FALSE)
    <3>1. CASE Linkable(ids \ had, a)
      BY <1>3, <3>1 DEF UpdatePublicArchive, Linkable, Begin
    <3>2. CASE ~Linkable(ids \ had, a)
      BY <1>3, <3>2 DEF UpdatePublicArchive, Linkable, Begin
    <3> QED
      BY <3>1, <3>2
  <2>2. /\ a \in created /\ put' = put /\ gone' = gone /\ lost' = lost /\ UNCHANGED db
        /\ saved' = saved /\ created' = created /\ put \subseteq put'
    BY <1>3 DEF UpdatePublicArchive, s3, Live, db
  <2>3. had \in SUBSET saved
    BY DEF FilesOf, Rows
  <2> HIDE DEF had
  <2>4. /\ tx' \in [Threads -> Tx] /\ tx[t] = Idle
        /\ \A s \in Threads \ {t} : tx'[s] = tx[s]
        /\ \A s \in Threads : HandlerOK(s)'
    BY <2>1, <2>2, <2>3, BeginKept
  <2> QED
    BY <2>2, <2>4, NothingWritten DEF Filing, TypeOK
<1>4. ASSUME NEW a \in Archives, DeletePublicArchive(t, a) PROVE Filing'
  <2>1. /\ Begin(t, "delete", a, {}, FilesOf(a), TRUE) /\ a \in created
        /\ put' = put /\ gone' = gone /\ lost' = lost /\ UNCHANGED db
    BY <1>4 DEF DeletePublicArchive, s3, Live
  <2>2. FilesOf(a) \in SUBSET saved
    BY DEF FilesOf, Rows
  <2>3. /\ tx' \in [Threads -> Tx] /\ tx[t] = Idle
        /\ \A s \in Threads \ {t} : tx'[s] = tx[s]
        /\ \A s \in Threads : HandlerOK(s)'
    BY <2>1, <2>2, BeginKept DEF db
  <2> QED
    BY <2>1, <2>3, NothingWritten DEF Filing, TypeOK
<1> QED
  BY <1>1, <1>2, <1>3, <1>4 DEF Call

(* A handler that ends keeps every object accounted for, when those it was *)
(* to take out lose their rows or are written down as lost.                *)
LEMMA AccountKept ==
  ASSUME Filing, NEW t \in Threads, \A s \in Threads \ {t} : tx'[s] = tx[s],
         dropped \subseteq dropped', lost \subseteq lost',
         (gone' \cap Removed(t)) \subseteq dropped' \cup lost',
         gone' \subseteq gone \cup Removed(t)
  PROVE  GoneAccounted'
<1> SUFFICES ASSUME NEW f \in gone' \ dropped', f \notin lost'
             PROVE  \E s \in Threads : f \in Removed(s)'
  BY DEF GoneAccounted
<1>1. f \notin Removed(t) /\ f \in gone \ dropped /\ f \notin lost
  OBVIOUS
<1>2. PICK s \in Threads : f \in Removed(s)
  BY <1>1 DEF Filing, GoneAccounted
<1>3. s # t
  BY <1>1, <1>2
<1> QED
  BY <1>2, <1>3 DEF Removed

(* A handler that fails leaves the database as it was.                     *)
LEMMA AbandonKept ==
  ASSUME Filing, NEW t \in Threads, Abandon(t), put' = put, UNCHANGED db,
         gone \subseteq gone', gone' \subseteq gone \cup tx[t].pending
  PROVE  Filing'
<1>1. Finish(t) /\ lost' = lost \cup (Removed(t) \cap gone')
  BY DEF Abandon
<1>2. tx[t].pending \subseteq Removed(t) /\ Removed(t) \subseteq saved /\ saved \subseteq put
  BY DEF Filing, HandlerOK, Removed, TypeOK
<1>3. /\ tx' \in [Threads -> Tx] /\ \A s \in Threads \ {t} : tx'[s] = tx[s]
      /\ \A s \in Threads : HandlerOK(s)'
  BY <1>1, FinishKept DEF db
<1>4. GoneAccounted'
  BY <1>1, <1>2, <1>3, AccountKept DEF db
<1>5. TypeOK' /\ NothingLeftBehind' /\ NoDanglingLink' /\ Unlinked'
  BY <1>1, <1>2, <1>3
     DEF Filing, TypeOK, NothingLeftBehind, NoDanglingLink, Unlinked, db, Rows, Live
<1> QED
  BY <1>3, <1>4, <1>5 DEF Filing

(* A handler that commits: what the rows must still be.                    *)
LEMMA CommitKept ==
  ASSUME Filing, NEW t \in Threads, Finish(t), UNCHANGED s3, lost' = lost,
         attached' = attached, saved' = saved,
         \/ created' = created
         \/ tx[t].op = "create" /\ created' = created \cup {tx[t].archive},
         deleted \subseteq deleted', deleted' \subseteq created',
         dropped' = dropped \cup Removed(t),
         Removed(t) \subseteq Rows, Removed(t) \cap attached = {}, tx[t].pending = {},
         link' \in [Files -> Archives \cup {NoArchive}],
         \A f \in Rows \ Removed(t) : link'[f] # NoArchive => link'[f] \in created' \ deleted',
         \A f \in Files \ saved : link'[f] = link[f]
  PROVE  Filing'
<1>1. /\ tx' \in [Threads -> Tx] /\ \A s \in Threads \ {t} : tx'[s] = tx[s]
      /\ \A s \in Threads : HandlerOK(s)'
  BY FinishKept DEF s3
<1>2. Removed(t) \subseteq gone
  BY DEF Filing, HandlerOK
<1>3. GoneAccounted'
  BY <1>1, AccountKept DEF s3
<1>4. NothingLeftBehind'
  BY <1>2 DEF Filing, NothingLeftBehind, s3
<1>5. created' \subseteq Archives
  BY DEF Filing, HandlerOK, TypeOK
<1>6. TypeOK'
  BY <1>1, <1>5 DEF Filing, TypeOK, s3, Rows
<1>7. NoDanglingLink' /\ Unlinked'
  BY DEF Filing, NoDanglingLink, Unlinked, Rows, Live
<1> QED
  BY <1>1, <1>3, <1>4, <1>6, <1>7 DEF Filing

LEMMA CommitsKept ==
  ASSUME Filing, NEW t \in Threads
  PROVE  /\ CommitCreate(t) => Filing'
         /\ CommitUpdate(t) => Filing'
         /\ CommitDelete(t) => Filing'
<1> DEFINE a == tx[t].archive
<1>0. /\ link \in [Files -> Archives \cup {NoArchive}] /\ Rows \subseteq Files
      /\ deleted \subseteq created /\ a \in Archives \cup {NoArchive}
      /\ tx[t].ids \subseteq Files /\ tx[t].had \subseteq Files
      /\ \A f \in Rows : link[f] # NoArchive => link[f] \in Live
      /\ attached \subseteq Rows
  BY DEF Filing, TypeOK, NoDanglingLink, Rows, Tx
<1>1. ASSUME CommitCreate(t) PROVE Filing'
  <2>1. /\ tx[t].op = "create" /\ created' = created \cup {tx[t].archive}
        /\ Finish(t) /\ UNCHANGED s3 /\ lost' = lost /\ attached' = attached
        /\ saved' = saved /\ deleted' = deleted /\ dropped' = dropped
        /\ link' = [f \in Files |-> IF f \in tx[t].ids THEN a ELSE link[f]]
    BY <1>1 DEF CommitCreate
  <2>2. tx[t].had = {} /\ tx[t].pending = {} /\ Removed(t) = {} /\ a \in Archives \ created
    BY <2>1 DEF Filing, HandlerOK, Removed
  <2>3. \A f \in Rows : link'[f] # NoArchive => link'[f] \in created' \ deleted'
    BY <1>0, <2>1, <2>2 DEF Live
  <2>4. /\ link' \in [Files -> Archives \cup {NoArchive}]
        /\ \A f \in Files \ saved : link'[f] = link[f]
    BY <1>0, <2>1, <1>1 DEF Rows, CommitCreate
  <2> QED
    BY <1>0, <2>1, <2>2, <2>3, <2>4, CommitKept
<1>2. ASSUME CommitUpdate(t) PROVE Filing'
  <2>1. /\ tx[t].pending = {} /\ created' = created
        /\ Finish(t) /\ UNCHANGED s3 /\ lost' = lost /\ attached' = attached
        /\ saved' = saved /\ deleted' = deleted /\ dropped' = dropped \cup Removed(t)
        /\ link' = [f \in Files |-> IF f \in Removed(t) THEN NoArchive
                                    ELSE IF f \in Added(t) THEN a ELSE link[f]]
        /\ Removed(t) \subseteq Rows /\ Removed(t) \cap attached = {}
        /\ Added(t) # {} => a \in Live
    BY <1>2 DEF CommitUpdate, MayDrop, MayLink
  <2>2. \A f \in Rows \ Removed(t) : link'[f] # NoArchive => link'[f] \in created' \ deleted'
    BY <1>0, <2>1 DEF Live
  <2>3. /\ link' \in [Files -> Archives \cup {NoArchive}]
        /\ \A f \in Files \ saved : link'[f] = link[f]
    BY <1>0, <2>1, <1>2 DEF Rows, CommitUpdate, MayLink
  <2> QED
    BY <1>0, <2>1, <2>2, <2>3, CommitKept
<1>3. ASSUME CommitDelete(t) PROVE Filing'
  <2>1. /\ tx[t].op = "delete" /\ tx[t].pending = {} /\ created' = created
        /\ Finish(t) /\ UNCHANGED s3 /\ lost' = lost /\ attached' = attached
        /\ saved' = saved /\ deleted' = deleted \cup {a} /\ dropped' = dropped \cup tx[t].had
        /\ link' = [f \in Files |-> IF f \in tx[t].had THEN NoArchive ELSE link[f]]
        /\ tx[t].had \subseteq Rows /\ tx[t].had \cap attached = {}
        /\ a \in Live /\ FilesOf(a) \subseteq tx[t].had
    BY <1>3 DEF CommitDelete, MayDrop
  <2>2. Removed(t) = tx[t].had
    BY <2>1 DEF Filing, HandlerOK, Removed
  <2>3. \A f \in Rows \ Removed(t) : link'[f] # NoArchive => link'[f] \in created' \ deleted'
    BY <1>0, <2>1, <2>2 DEF Live, FilesOf
  <2>4. /\ link' \in [Files -> Archives \cup {NoArchive}]
        /\ \A f \in Files \ saved : link'[f] = link[f]
    BY <1>0, <2>1 DEF Rows
  <2> QED
    BY <1>0, <2>1, <2>2, <2>3, <2>4, CommitKept DEF Live
<1> QED
  BY <1>1, <1>2, <1>3

LEMMA StepKept ==
  ASSUME Filing, NEW t \in Threads, Step(t)
  PROVE  Filing'
<1>1. CASE SaveFileUpload(t)
  <2>1. /\ tx[t].op = "upload" /\ saved' = saved \cup tx[t].ids /\ Finish(t)
        /\ UNCHANGED s3 /\ dropped' = dropped /\ link' = link /\ attached' = attached
        /\ created' = created /\ deleted' = deleted /\ lost' = lost
    BY <1>1 DEF SaveFileUpload
  <2>2. tx[t].ids \subseteq put /\ tx[t].pending = {} /\ tx[t].had = {} /\ Removed(t) = {}
    BY <2>1 DEF Filing, HandlerOK, Removed
  <2>3. /\ tx' \in [Threads -> Tx] /\ \A s \in Threads \ {t} : tx'[s] = tx[s]
        /\ \A s \in Threads : HandlerOK(s)'
    BY <2>1, FinishKept DEF s3
  <2>4. GoneAccounted'
    BY <2>1, <2>2, <2>3, AccountKept DEF s3
  <2>5. TypeOK' /\ NothingLeftBehind' /\ attached' \subseteq Rows'
    BY <2>1, <2>2, <2>3 DEF Filing, TypeOK, NothingLeftBehind, NoDanglingLink, s3, Rows
  <2>6. saved \subseteq Files /\ put \subseteq Files
    BY DEF Filing, TypeOK
  <2>7. Unlinked' /\ \A f \in Rows' : link'[f] # NoArchive => link'[f] \in Live'
    BY <2>1, <2>2, <2>6 DEF Filing, NoDanglingLink, Unlinked, Rows, Live
  <2> QED
    BY <2>3, <2>4, <2>5, <2>7 DEF Filing, NoDanglingLink
<1>2. CASE UploadFails(t)
  <2>1. tx[t].op = "upload" /\ Finish(t) /\ UNCHANGED <<s3, db, lost>>
    BY <1>2 DEF UploadFails
  <2>2. Removed(t) = {}
    BY <2>1 DEF Filing, HandlerOK, Removed
  <2>3. Abandon(t)
    BY <2>1, <2>2 DEF Abandon
  <2> QED
    BY <2>1, <2>3, AbandonKept DEF s3
<1>3. ASSUME NEW f \in Files, DeleteFile(t, f) PROVE Filing'
  <2>1. /\ f \in tx[t].pending /\ gone' = gone \cup {f}
        /\ put' = put /\ UNCHANGED db /\ lost' = lost
    BY <1>3 DEF DeleteFile
  <2> DEFINE w == [tx[t] EXCEPT !.pending = @ \ {f}]
  <2>2. tx' = [tx EXCEPT ![t] = w] /\ w \in Tx
    BY <1>3 DEF DeleteFile, Filing, TypeOK, Tx
  <2>3. /\ w.op = tx[t].op /\ w.archive = tx[t].archive /\ w.ids = tx[t].ids
        /\ w.had = tx[t].had /\ w.ok = tx[t].ok /\ w.pending = tx[t].pending \ {f}
    BY DEF Filing, TypeOK, Tx
  <2> HIDE DEF w
  <2>4. \A s \in Threads \ {t} : tx[s].op = "create" => w.archive # tx[s].archive
    BY <2>3 DEF Filing, HandlerOK
  <2>5. /\ tx' \in [Threads -> Tx] /\ tx'[t] = w
        /\ \A s \in Threads \ {t} : tx'[s] = tx[s] /\ HandlerOK(s)'
    BY <2>1, <2>2, <2>4, OthersKept DEF db
  <2>6. HandlerOK(t)'
    BY <2>1, <2>3, <2>5 DEF Filing, HandlerOK, Removed, db
  <2>7. \A s \in Threads : Removed(s)' = Removed(s)
    BY <2>3, <2>5 DEF Removed
  <2>8. f \in Removed(t) /\ f \in put
    BY <2>1 DEF Filing, HandlerOK, Removed, TypeOK
  <2>9. GoneAccounted'
    BY <2>1, <2>7, <2>8 DEF Filing, GoneAccounted, db
  <2>10. TypeOK' /\ NothingLeftBehind' /\ NoDanglingLink' /\ Unlinked'
    BY <2>1, <2>5, <2>8
       DEF Filing, TypeOK, NothingLeftBehind, NoDanglingLink, Unlinked, db, Rows, Live
  <2> QED
    BY <2>5, <2>6, <2>9, <2>10 DEF Filing
<1>4. ASSUME NEW f \in Files, DeleteFileFails(t, f) PROVE Filing'
  <2>1. /\ f \in tx[t].pending /\ gone' \in {gone, gone \cup {f}}
        /\ Abandon(t) /\ put' = put /\ UNCHANGED db
    BY <1>4 DEF DeleteFileFails
  <2> QED
    BY <2>1, AbandonKept
<1>5. CASE UpdateRefused(t)
  BY <1>5, AbandonKept DEF UpdateRefused, s3
<1>6. CASE CommitFails(t)
  BY <1>6, AbandonKept DEF CommitFails, s3
<1> QED
  BY <1>1, <1>2, <1>3, <1>4, <1>5, <1>6, CommitsKept DEF Step

LEMMA FilingInvariant == Spec => []Filing
<1>1. Init => Filing
  <2> SUFFICES ASSUME Init PROVE Filing
    OBVIOUS
  <2>1. /\ put = {} /\ gone = {} /\ saved = {} /\ dropped = {} /\ attached = {}
        /\ link = [f \in Files |-> NoArchive] /\ created = {} /\ deleted = {}
        /\ tx = [t \in Threads |-> Idle] /\ lost = {}
    BY DEF Init
  <2>2. TypeOK /\ NothingLeftBehind /\ GoneAccounted /\ NoDanglingLink /\ Unlinked
    BY <2>1, IdleTyped
       DEF TypeOK, NothingLeftBehind, GoneAccounted, NoDanglingLink, Unlinked, Rows
  <2>3. \A t \in Threads : HandlerOK(t)
    BY <2>1 DEF HandlerOK, Idle, Removed
  <2> QED
    BY <2>2, <2>3 DEF Filing
<1>2. Filing /\ [Next]_vars => Filing'
  <2> SUFFICES ASSUME Filing, [Next]_vars PROVE Filing'
    OBVIOUS
  <2>1. ASSUME NEW f \in Files, FileDelete(f) PROVE Filing'
    <3>1. /\ f \in put /\ gone' = gone \cup {f} /\ lost' = lost \cup {f}
          /\ put' = put /\ UNCHANGED <<db, tx>>
      BY <2>1 DEF FileDelete
    <3>2. \A t \in Threads : HandlerOK(t)' /\ Removed(t)' = Removed(t)
      BY <3>1 DEF Filing, HandlerOK, Removed, db
    <3>3. GoneAccounted'
      BY <3>1, <3>2 DEF Filing, GoneAccounted, db
    <3>4. TypeOK' /\ NothingLeftBehind' /\ NoDanglingLink' /\ Unlinked'
      BY <3>1 DEF Filing, TypeOK, NothingLeftBehind, NoDanglingLink, Unlinked, db, Rows, Live
    <3> QED
      BY <3>2, <3>3, <3>4 DEF Filing
  <2>2. ASSUME NEW f \in Files, AttachFile(f) PROVE Filing'
    <3>1. /\ f \in Rows /\ attached' = attached \cup {f} /\ UNCHANGED s3
          /\ UNCHANGED <<saved, dropped, link, created, deleted, tx, lost>>
      BY <2>2 DEF AttachFile
    <3>2. \A t \in Threads : HandlerOK(t)' /\ Removed(t)' = Removed(t)
      BY <3>1 DEF Filing, HandlerOK, Removed, s3
    <3>3. GoneAccounted'
      BY <3>1, <3>2 DEF Filing, GoneAccounted, s3
    <3>4. TypeOK' /\ NothingLeftBehind' /\ NoDanglingLink' /\ Unlinked'
      BY <3>1 DEF Filing, TypeOK, NothingLeftBehind, NoDanglingLink, Unlinked, s3, Rows, Live
    <3> QED
      BY <3>2, <3>3, <3>4 DEF Filing
  <2>3. CASE UNCHANGED vars
    <3>1. \A t \in Threads : HandlerOK(t)' /\ Removed(t)' = Removed(t)
      BY <2>3 DEF Filing, HandlerOK, Removed, vars, s3, db
    <3>2. TypeOK' /\ NothingLeftBehind' /\ NoDanglingLink' /\ Unlinked' /\ GoneAccounted'
      BY <2>3, <3>1 DEF Filing, TypeOK, NothingLeftBehind, NoDanglingLink, Unlinked,
         GoneAccounted, vars, s3, db, Rows, Live
    <3> QED
      BY <3>1, <3>2 DEF Filing
  <2> QED
    BY <2>1, <2>2, <2>3, CallKept, StepKept DEF Next
<1> QED
  BY <1>1, <1>2, PTL DEF Spec

(* Columns, sets and handlers keep their shape.                            *)
THEOREM TypeCorrect == Spec => []TypeOK
<1>1. Filing => TypeOK
  BY DEF Filing
<1> QED
  BY <1>1, FilingInvariant, PTL

(* No object outlives its row: a row is deleted only after deleteFile has  *)
(* deleted the object, for any number of files and overlapping handlers.   *)
THEOREM ObjectsGoFirst == Spec => []NothingLeftBehind
<1>1. Filing => NothingLeftBehind
  BY DEF Filing
<1> QED
  BY <1>1, FilingInvariant, PTL

(* A row without its object is being deleted, or DELETE /file or a failed  *)
(* handler took the object.                                                *)
THEOREM FilesDownloadable == Spec => []RowHasObject
<1>1. Filing => RowHasObject
  BY DEF Filing, GoneAccounted, RowHasObject, Rows
<1> QED
  BY <1>1, FilingInvariant, PTL

(* What a row points to exists.                                            *)
THEOREM LinksPoint == Spec => []NoDanglingLink
<1>1. Filing => NoDanglingLink
  BY DEF Filing
<1> QED
  BY <1>1, FilingInvariant, PTL

LEMMA Undisturbed ==
  ASSUME NEW f \in Files, NEW t \in Threads, Settled(f), f \in Rows', link'[f] = link[f],
         \A s \in Threads \ {t} : tx'[s] = tx[s],
         tx'[t].ok /\ f \in tx'[t].ids \cup tx'[t].had => tx'[t].archive = link[f]
  PROVE  Settled(f)'
BY DEF Settled

(* A handler that begins finds the file linked.                            *)
LEMMA BeginSettles ==
  ASSUME Filing, NEW f \in Files, NEW t \in Threads, Settled(f), NEW op,
         NEW a, NEW ids, NEW had, NEW ok, Begin(t, op, a, ids, had, ok), UNCHANGED db,
         ok /\ f \in ids \cup had => a = link[f]
  PROVE  Settled(f)' /\ link'[f] = link[f]
<1> DEFINE w == [op |-> op, archive |-> a, ids |-> ids, had |-> had,
                 pending |-> had \ ids, ok |-> ok]
<1>1. tx' = [tx EXCEPT ![t] = w] /\ tx \in [Threads -> Tx]
  BY DEF Begin, Filing, TypeOK
<1>2. w.archive = a /\ w.ids = ids /\ w.had = had /\ w.ok = ok
  OBVIOUS
<1> HIDE DEF w
<1>3. tx'[t] = w /\ \A s \in Threads \ {t} : tx'[s] = tx[s]
  BY <1>1
<1>4. tx'[t].ok /\ f \in tx'[t].ids \cup tx'[t].had => tx'[t].archive = link[f]
  BY <1>2, <1>3
<1>5. f \in Rows' /\ link'[f] = link[f]
  BY DEF Settled, db, Rows
<1> QED
  BY <1>3, <1>4, <1>5, Undisturbed

(* A handler that ends changes the link of a settled file only by taking   *)
(* the file out.                                                           *)
LEMMA FinishSettles ==
  ASSUME Filing, NEW f \in Files, NEW t \in Threads, Settled(f), Finish(t),
         f \in Rows', link'[f] = link[f]
  PROVE  Settled(f)'
<1>1. tx'[t] = Idle /\ \A s \in Threads \ {t} : tx'[s] = tx[s]
  BY DEF Finish, Filing, TypeOK
<1>2. ~(f \in tx'[t].ids \cup tx'[t].had)
  BY <1>1 DEF Idle
<1> QED
  BY <1>1, <1>2, Undisturbed

LEMMA CallSettles ==
  ASSUME Filing, NEW f \in Files, NEW t \in Threads, Settled(f), Call(t)
  PROVE  Settled(f)' /\ link'[f] = link[f]
<1>0. f \in Rows /\ f \in put /\ link[f] # NoArchive
  BY DEF Settled, Filing, TypeOK, Rows
<1>1. ASSUME NEW g \in Files, UploadFileS3(t, g)
      PROVE  Settled(f)' /\ link'[f] = link[f]
  <2>1. Begin(t, "upload", NoArchive, {g}, {}, TRUE) /\ UNCHANGED db /\ g \notin put
    BY <1>1 DEF UploadFileS3
  <2>2. f \notin {g} \cup {}
    BY <1>0, <2>1
  <2> QED
    BY <2>1, <2>2, BeginSettles
<1>2. ASSUME NEW a \in Archives, NEW ids \in SUBSET Files, CreatePublicArchive(t, a, ids)
      PROVE  Settled(f)' /\ link'[f] = link[f]
  <2>1. Begin(t, "create", a, ids, {}, TRUE) /\ UNCHANGED db /\ Linkable(ids, NoArchive)
    BY <1>2 DEF CreatePublicArchive
  <2>2. f \notin ids \cup {}
    BY <1>0, <2>1 DEF Linkable
  <2> QED
    BY <2>1, <2>2, BeginSettles
<1>3. ASSUME NEW a \in Archives, NEW ids \in SUBSET Files, UpdatePublicArchive(t, a, ids)
      PROVE  Settled(f)' /\ link'[f] = link[f]
  <2> DEFINE had == FilesOf(a)
  <2>1. UNCHANGED db
    BY <1>3 DEF UpdatePublicArchive
  <2>2. f \in had => a = link[f]
    BY DEF FilesOf
  <2>3. Linkable(ids \ had, a) /\ f \in ids \cup had => a = link[f]
    BY <1>0, <2>2 DEF Linkable
  <2>4. CASE Linkable(ids \ had, a)
    <3>1. Begin(t, "update", a, ids, had, TRUE)
      BY <1>3, <2>4 DEF UpdatePublicArchive, Linkable, Begin
    <3> HIDE DEF had
    <3> QED
      BY <2>1, <2>3, <2>4, <3>1, BeginSettles
  <2>5. CASE ~Linkable(ids \ had, a)
    <3>1. Begin(t, "update", a, ids, had, FALSE)
      BY <1>3, <2>5 DEF UpdatePublicArchive, Linkable, Begin
    <3> HIDE DEF had
    <3> QED
      BY <2>1, <3>1, BeginSettles
  <2> QED
    BY <2>4, <2>5
<1>4. ASSUME NEW a \in Archives, DeletePublicArchive(t, a)
      PROVE  Settled(f)' /\ link'[f] = link[f]
  <2>1. Begin(t, "delete", a, {}, FilesOf(a), TRUE) /\ UNCHANGED db
    BY <1>4 DEF DeletePublicArchive
  <2>2. f \in {} \cup FilesOf(a) => a = link[f]
    BY DEF FilesOf
  <2> QED
    BY <2>1, <2>2, BeginSettles
<1> QED
  BY <1>1, <1>2, <1>3, <1>4 DEF Call

LEMMA StepSettles ==
  ASSUME Filing, NEW f \in Files, NEW t \in Threads, Settled(f), Step(t)
  PROVE  TakenOut(f) \/ (Settled(f)' /\ link'[f] = link[f])
<1> DEFINE a == tx[t].archive
<1>0. /\ f \in Rows /\ f \in saved /\ f \notin dropped
      /\ tx[t].ok /\ f \in tx[t].ids \cup tx[t].had => a = link[f]
  BY DEF Settled, Rows
<1>1. ASSUME Finish(t), f \in Removed(t), a = link[f], f \in dropped'
      PROVE  TakenOut(f)
  <2>1. tx'[t] = Idle
    BY <1>1 DEF Finish, Filing, TypeOK
  <2> QED
    BY <1>1, <2>1 DEF TakenOut
<1>2. CASE SaveFileUpload(t)
  BY <1>0, <1>2, FinishSettles DEF SaveFileUpload, Rows
<1>3. CASE UploadFails(t)
  BY <1>0, <1>3, FinishSettles DEF UploadFails, Rows, db
<1>4. ASSUME NEW g \in Files, DeleteFile(t, g)
      PROVE  Settled(f)' /\ link'[f] = link[f]
  <2> DEFINE w == [tx[t] EXCEPT !.pending = @ \ {g}]
  <2>1. tx' = [tx EXCEPT ![t] = w] /\ tx \in [Threads -> Tx] /\ UNCHANGED db
    BY <1>4 DEF DeleteFile, Filing, TypeOK
  <2>2. w.archive = a /\ w.ids = tx[t].ids /\ w.had = tx[t].had /\ w.ok = tx[t].ok
    BY <2>1 DEF Tx
  <2> HIDE DEF w
  <2>3. tx'[t] = w /\ \A s \in Threads \ {t} : tx'[s] = tx[s]
    BY <2>1
  <2>4. f \in Rows' /\ link'[f] = link[f]
    BY <1>0, <2>1 DEF db, Rows
  <2> QED
    BY <1>0, <2>2, <2>3, <2>4, Undisturbed
<1>5. ASSUME NEW g \in Files, DeleteFileFails(t, g)
      PROVE  Settled(f)' /\ link'[f] = link[f]
  BY <1>0, <1>5, FinishSettles DEF DeleteFileFails, Abandon, Rows, db
<1>6. CASE UpdateRefused(t)
  BY <1>0, <1>6, FinishSettles DEF UpdateRefused, Abandon, Rows, db
<1>7. CASE CommitFails(t)
  BY <1>0, <1>7, FinishSettles DEF CommitFails, Abandon, Rows, db
<1>8. CASE CommitCreate(t)
  <2>1. /\ tx[t].op = "create" /\ Finish(t) /\ saved' = saved /\ dropped' = dropped
        /\ link' = [g \in Files |-> IF g \in tx[t].ids THEN a ELSE link[g]]
    BY <1>8 DEF CommitCreate
  <2>2. tx[t].ok
    BY <2>1 DEF Filing, HandlerOK
  <2>3. link'[f] = link[f] /\ f \in Rows'
    BY <1>0, <2>1, <2>2 DEF Rows
  <2> QED
    BY <2>1, <2>3, FinishSettles
<1>9. CASE CommitUpdate(t)
  <2>1. /\ tx[t].ok /\ Finish(t) /\ saved' = saved /\ dropped' = dropped \cup Removed(t)
        /\ link' = [g \in Files |-> IF g \in Removed(t) THEN NoArchive
                                    ELSE IF g \in Added(t) THEN a ELSE link[g]]
    BY <1>9 DEF CommitUpdate
  <2>2. CASE f \in Removed(t)
    BY <1>0, <1>1, <2>1, <2>2 DEF Removed
  <2>3. CASE f \notin Removed(t)
    <3>1. link'[f] = link[f] /\ f \in Rows'
      BY <1>0, <2>1, <2>3 DEF Rows, Added
    <3> QED
      BY <2>1, <3>1, FinishSettles
  <2> QED
    BY <2>2, <2>3
<1>10. CASE CommitDelete(t)
  <2>1. /\ tx[t].op = "delete" /\ Finish(t) /\ saved' = saved
        /\ dropped' = dropped \cup tx[t].had
        /\ link' = [g \in Files |-> IF g \in tx[t].had THEN NoArchive ELSE link[g]]
    BY <1>10 DEF CommitDelete
  <2>2. tx[t].ok /\ Removed(t) = tx[t].had
    BY <2>1 DEF Filing, HandlerOK, Removed
  <2>3. CASE f \in Removed(t)
    BY <1>0, <1>1, <2>1, <2>2, <2>3
  <2>4. CASE f \notin Removed(t)
    <3>1. link'[f] = link[f] /\ f \in Rows'
      BY <1>0, <2>1, <2>2, <2>4 DEF Rows
    <3> QED
      BY <2>1, <3>1, FinishSettles
  <2> QED
    BY <2>3, <2>4
<1> QED
  BY <1>2, <1>3, <1>4, <1>5, <1>6, <1>7, <1>8, <1>9, <1>10 DEF Step

(* A file that every handler under way knows to be an archive's stays with *)
(* it until a handler of this archive takes it out.                        *)
THEOREM FileKeptByArchive == Spec => LinkSettles
<1> DEFINE Stays(f) == Settled(f) =>
             TakenOut(f) \/ (Settled(f)' /\ link'[f] = link[f])
<1>1. ASSUME Filing, [Next]_vars PROVE \A f \in Files : Stays(f)
  <2> SUFFICES ASSUME NEW f \in Files, Settled(f)
               PROVE  TakenOut(f) \/ (Settled(f)' /\ link'[f] = link[f])
    OBVIOUS
  <2>1. CASE UNCHANGED <<db, tx>>
    BY <2>1 DEF Settled, Rows, db
  <2>2. ASSUME NEW g \in Files, AttachFile(g)
        PROVE  Settled(f)' /\ link'[f] = link[f]
    BY <2>2 DEF AttachFile, Settled, Rows
  <2>3. ASSUME NEW g \in Files, FileDelete(g) PROVE UNCHANGED <<db, tx>>
    BY <2>3 DEF FileDelete
  <2>4. UNCHANGED vars => UNCHANGED <<db, tx>>
    BY DEF vars
  <2> QED
    BY <1>1, <2>1, <2>2, <2>3, <2>4, CallSettles, StepSettles DEF Next
<1>2. Filing /\ [Next]_vars => [\A f \in Files : Stays(f)]_vars
  BY <1>1
<1> QED
  BY <1>2, FilingInvariant, PTL DEF Spec, LinkSettles
=============================================================================
