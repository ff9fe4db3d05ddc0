------------------------------- MODULE ItemModel -------------------------------
(***************************************************************************)
(* DataStoreModel: the datasets of one type as rows of an item model.  The *)
(* model knows the keys of the type, has fetched the data of the first of  *)
(* them, and follows the announcements of its store.  Other threads write  *)
(* to the store and announce what they did afterwards, through the event   *)
(* loop of the engine; what the model itself saves is announced at once.   *)
(***************************************************************************)
EXTENDS SyncRules, FiniteSets, SequencesExt

CONSTANTS
  Keys,        \* datasets
  Types,       \* types of datasets
  TypeOf,      \* the type of a dataset
  NoType,      \* typeId of a model whose type was not set
  Writers,     \* threads of the application besides the model's
  FetchSize,   \* datasets that are fetched at once (100)
  MaxWrites,   \* bound: saves, removals and resets
  MaxLoads,    \* bound: calls of setTypeId and reload
  MaxFaults    \* bound: operations of the database that fail, and crashes

ASSUME ItemModelAssumption ==
  /\ IsFiniteSet(Keys) /\ "none" \notin Keys
  /\ TypeOf \in [Keys -> Types] /\ NoType \notin Types
  /\ FetchSize \in Nat \ {0}
  /\ {MaxWrites, MaxLoads, MaxFaults} \subseteq Nat

VARIABLES
  row,      \* rows of DataIndex
  torn,     \* datasets whose file is missing although the row names it
  posting,  \* what each thread has committed and not announced yet
  news,     \* announcements on their way to the model
  model,    \* the DataStoreModel
  misled,   \* datasets whose last announcement contradicted the store when it
            \* was handled: announcements are not ordered like commits
  writes, loads, faults

storeVars == <<row, torn>>
itemVars == <<row, torn, posting, news, model, misled, writes, loads, faults>>

\* keyList; dataHash; fetched datasets whose data could not be loaded again or
\* could not be saved; and whether the keys could not be loaded.
ItemModel ==
  [type : Types \cup {NoType}, keyList : Seq(Keys), dataHash : UNION {[S -> Data] : S \in SUBSET Keys},
   stale : SUBSET Keys, blind : BOOLEAN]

NoNews == [key |-> "none", deleted |-> FALSE]
ResetNews == [key |-> "all", deleted |-> TRUE]
News == [key : Keys, deleted : BOOLEAN] \cup {ResetNews}

ItemTypeOK ==
  /\ row \in [Keys -> Row] /\ torn \subseteq Keys
  /\ posting \in [Writers -> News \cup {NoNews}] /\ news \in Seq(News)
  /\ model \in ItemModel /\ misled \subseteq Keys
  /\ {writes, loads, faults} \subseteq Nat

Empty(type) ==
  [type |-> type, keyList |-> << >>, dataHash |-> << >>, stale |-> {}, blind |-> FALSE]

ItemInit(rows) ==
  /\ row = rows /\ torn = {}
  /\ posting = [w \in Writers |-> NoNews] /\ news = << >>
  /\ model = Empty(NoType) /\ misled = {}
  /\ writes = 0 /\ loads = 0 /\ faults = 0

--------------------------------------------------------------------------------
(* The store.                                                                *)

\* load throws for a dataset that is not there and for one whose file is gone.
Loadable(k) == Exists(row[k]) /\ k \notin torn
KeysOf(type) == {k \in Keys : TypeOf[k] = type /\ Exists(row[k])}

\* A thread commits; it announces the change when it gets to it, but not the
\* deletion of what does not exist.
Commit(w, k, new, deleted) ==
  /\ posting[w] = NoNews
  /\ row' = [row EXCEPT ![k] = new]
  /\ torn' = torn \ {k}
  /\ posting' = [posting EXCEPT ![w] =
       IF deleted /\ ~Exists(row[k]) THEN @ ELSE [key |-> k, deleted |-> deleted]]

SaveRow(w, k, data) ==
  /\ writes < MaxWrites /\ writes' = writes + 1
  /\ Commit(w, k, save(row[k], data), FALSE)
  /\ UNCHANGED <<news, model, misled, loads, faults>>

\* A removal fails when there is no file to delete.
RemoveRow(w, k) ==
  /\ writes < MaxWrites /\ writes' = writes + 1
  /\ Loadable(k) /\ Commit(w, k, remove(row[k]), TRUE)
  /\ UNCHANGED <<news, model, misled, loads, faults>>

\* The commit of a removal fails after the file is gone.
RemoveFails(w, k) ==
  /\ faults < MaxFaults /\ faults' = faults + 1
  /\ posting[w] = NoNews /\ Loadable(k)
  /\ torn' = torn \cup {k}
  /\ UNCHANGED <<row, posting, news, model, misled, writes, loads>>

\* reset, when the account is left: everything is removed, rows included.
Reset(w) ==
  /\ writes < MaxWrites /\ writes' = writes + 1
  /\ posting[w] = NoNews
  /\ row' = [k \in Keys |-> NoRow] /\ torn' = {}
  /\ posting' = [posting EXCEPT ![w] = ResetNews]
  /\ UNCHANGED <<news, model, misled, loads, faults>>

\* The server has the deletion, and its row is purged or kept.
Uploaded(k) ==
  /\ row[k].changed /\ ExistsDeleted(row[k])
  /\ row' = [row EXCEPT ![k] = markUnchanged(@, @.version, TRUE)]
  /\ UNCHANGED <<torn, posting, news, model, misled, writes, loads, faults>>

\* triggerChange, triggerReset: the engine passes the announcement on.
Announce(w) ==
  /\ posting[w] # NoNews
  /\ news' = Append(news, posting[w])
  /\ posting' = [posting EXCEPT ![w] = NoNews]
  /\ UNCHANGED <<row, torn, model, misled, writes, loads, faults>>

--------------------------------------------------------------------------------
(* The model.                                                                *)

rowCount(m) == Cardinality(DOMAIN m.dataHash)
canFetchMore(m) == rowCount(m) < Len(m.keyList)
activeKeys(m) == ToSet(SubSeq(m.keyList, 1, rowCount(m)))

\* The datasets the next fetchMore loads.
Batch(m) ==
  {m.keyList[i] : i \in rowCount(m) + 1 .. Min({rowCount(m) + FetchSize, Len(m.keyList)})}

Hold(m, k, data) ==
  [m EXCEPT !.dataHash = [x \in DOMAIN @ \cup {k} |-> IF x = k THEN data ELSE @[x]]]

Loaded(hash, batch) ==
  [k \in DOMAIN hash \cup batch |-> IF k \in DOMAIN hash THEN hash[k] ELSE row[k].content]

\* All or nothing: one dataset that cannot be loaded keeps the others out.  The
\* loads are one step, as whatever changes between them is announced later.
fetchMore(m) ==
  IF \A k \in Batch(m) : Loadable(k)
  THEN [m EXCEPT !.dataHash = Loaded(@, Batch(m))]
  ELSE m

\* Mutant: only fetched datasets are removed.
DropFetched(m, k) ==
  IF k \in activeKeys(m)
  THEN [m EXCEPT !.keyList = RemoveFirst(@, k),
                 !.dataHash = Restrict(@, DOMAIN @ \ {k}), !.stale = @ \ {k}]
  ELSE m

\* storeChanged for a dataset that was deleted: only one that is fetched has data.
Drop(m, k) ==
  [m EXCEPT !.keyList = RemoveFirst(@, k),
            !.dataHash = IF k \in activeKeys(m) THEN Restrict(@, DOMAIN @ \ {k}) ELSE @,
            !.stale = @ \ {k}]

\* storeChanged for a known dataset: it is loaded again if it has been fetched.
Refresh(m, k) ==
  IF k \notin activeKeys(m) THEN m
  ELSE IF Loadable(k) THEN [Hold(m, k, row[k].content) EXCEPT !.stale = @ \ {k}]
  ELSE [m EXCEPT !.stale = @ \cup {k}]

\* Mutant: an unknown dataset is left out while there is more to fetch.
AddToComplete(m, k) ==
  IF canFetchMore(m) THEN m ELSE fetchMore([m EXCEPT !.keyList = Append(@, k)])

\* storeChanged for an unknown one: a model that was complete fetches it.
Add(m, k) ==
  LET longer == [m EXCEPT !.keyList = Append(@, k)] IN
  IF canFetchMore(m) THEN longer ELSE fetchMore(longer)

onStoreChanged(m, k, deleted) ==
  IF TypeOf[k] # m.type THEN m
  ELSE IF deleted THEN Drop(m, k)
  ELSE IF k \in ToSet(m.keyList) THEN Refresh(m, k) ELSE Add(m, k)

onStoreResetted(m) == Empty(m.type)

\* The model's thread handles the next announcement.
HandleNews ==
  /\ news # << >> /\ news' = Tail(news)
  /\ LET n == Head(news) IN
     IF n = ResetNews
     THEN /\ model' = onStoreResetted(model)
          /\ misled' = KeysOf(model.type)
     ELSE /\ model' = onStoreChanged(model, n.key, n.deleted)
          /\ misled' = IF Exists(row[n.key]) = n.deleted THEN misled \cup {n.key}
                                                         ELSE misled \ {n.key}
  /\ UNCHANGED <<storeVars, posting, writes, loads, faults>>

\* setTypeId and reload: the keys in the order of the database, or an error.
Load(type) ==
  /\ loads < MaxLoads /\ loads' = loads + 1
  /\ \/ /\ \E keys \in SetToSeqs(KeysOf(type)) : model' = [Empty(type) EXCEPT !.keyList = keys]
        /\ UNCHANGED faults
     \/ /\ faults < MaxFaults /\ faults' = faults + 1
        /\ model' = [Empty(type) EXCEPT !.blind = TRUE]
  /\ misled' = {}
  /\ UNCHANGED <<storeVars, posting, news, writes>>

setTypeId(type) == type # model.type /\ Load(type)
reload == model.type # NoType /\ Load(model.type)

\* The view has scrolled to the last row.
ViewFetches ==
  /\ canFetchMore(model) /\ fetchMore(model) # model
  /\ model' = fetchMore(model)
  /\ UNCHANGED <<storeVars, posting, news, misled, writes, loads, faults>>

\* writeProperty: the row shows the new value before it is saved.  The store
\* announces the save at once, unless it fails.
WriteProperty(k, data) ==
  \/ /\ row' = [row EXCEPT ![k] = save(@, data)] /\ torn' = torn \ {k}
     /\ model' = [Hold(model, k, data) EXCEPT !.stale = @ \ {k}]
     /\ misled' = misled \ {k}
     /\ UNCHANGED faults
  \/ /\ faults < MaxFaults /\ faults' = faults + 1
     /\ model' = [Hold(model, k, data) EXCEPT !.stale = @ \cup {k}]
     /\ UNCHANGED <<storeVars, misled>>

setData(k, data) ==
  /\ writes < MaxWrites /\ writes' = writes + 1
  /\ k \in activeKeys(model)
  /\ WriteProperty(k, data)
  /\ UNCHANGED <<posting, news, loads>>

\* The process is killed: a new model knows nothing.
RestartModel ==
  /\ posting' = [w \in Writers |-> NoNews] /\ news' = << >>
  /\ model' = Empty(NoType) /\ misled' = {}

--------------------------------------------------------------------------------
WriterStep(w) ==
  \/ Announce(w) \/ Reset(w)
  \/ \E k \in Keys :
       RemoveRow(w, k) \/ RemoveFails(w, k) \/ \E data \in Data : SaveRow(w, k, data)

ModelStep ==
  \/ HandleNews \/ ViewFetches \/ reload
  \/ \E k \in Keys : Uploaded(k)
  \/ \E type \in Types : setTypeId(type)
  \/ \E k \in Keys, data \in Data : setData(k, data)

\* Threads announce what they have done, event loops run, and the user scrolls
\* to the end of the view.
ItemFairness ==
  WF_itemVars((\E w \in Writers : Announce(w)) \/ HandleNews \/ ViewFetches)

--------------------------------------------------------------------------------
(* Properties.                                                               *)

\* Once all announcements are handled, the model lists exactly the datasets of
\* its type, and its rows show what is stored, in whatever order saves, removals,
\* fetches and announcements have met.  Exceptions are datasets whose commits
\* were announced in another order, those that could not be loaded again or
\* saved, and a model that could not load its keys.
ModelIsCurrent ==
  news = << >> /\ (\A w \in Writers : posting[w] = NoNews) /\ ~model.blind =>
    /\ ToSet(model.keyList) \ misled = KeysOf(model.type) \ misled
    /\ \A k \in activeKeys(model) \ model.stale :
         model.dataHash[k] = row[k].content

\* A view that keeps fetching gets to see all rows, unless one of those it would
\* fetch next cannot be loaded, or was announced in the wrong order.
ShowsAll == <>[](canFetchMore(model) => Batch(model) \cap (torn \cup misled) # {})
================================================================================
