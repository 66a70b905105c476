------------------------------ MODULE Resources ------------------------------
(***************************************************************************)
(* The resources a key keeps in the gateway: OpenAI Files, the multipart   *)
(* Uploads that become Files, Vector Stores with their attached Files and  *)
(* file batches, Gemini Files and the resumable uploads that become them,  *)
(* and the rows that are only stored and read back (Anthropic Files,       *)
(* stored responses and chat completions).  Every handler is one           *)
(* transaction on system.db.  All of them share one budget of rows and     *)
(* bytes per key, per owner and for the gateway; what counts against it is *)
(* what has not expired, although the row may still be there.              *)
(*                                                                         *)
(* Bytes are counted in units that leave out the constant cost of a row    *)
(* (nonce, tag, name).  A handler reads the clock before it waits for the  *)
(* database and the budget is counted after: Waits are the ticks between.  *)
(***************************************************************************)
EXTENDS Integers, Sequences, FiniteSets, Functions

CONSTANTS
  Keys, UserOf,                 \* API keys and the user each belongs to
  Files, Uploads, Stores, Kept, \* identities of rows
  GeminiUploads, Names,         \* resumable uploads, and names a client asks for (or None)
  Data,                         \* the bytes the client of a Gemini upload has to send
  Sizes,                        \* sizes of Files, Uploads and stored rows
  Days,                         \* expires_after of a Vector Store (or None)
  FileLife, UploadLife,         \* lifetimes of Files and stored rows, and of uploads
  KeyRows, KeyBytes, OwnerRows, OwnerBytes, AllRows, AllBytes,
  MaxParts, MaxTime, Waits, None

ASSUME ResourcesAssumption ==
  /\ DOMAIN UserOf = Keys
  /\ Waits \subseteq Nat /\ Sizes \subseteq Nat \ {0} /\ Days \subseteq Nat \cup {None}
  /\ Data \in [GeminiUploads -> Seq(Nat)]
  /\ FileLife \in Nat \ {0} /\ UploadLife \in Nat \ {0} /\ MaxTime \in Nat
  /\ {KeyRows, KeyBytes, OwnerRows, OwnerBytes, AllRows, AllBytes} \subseteq Nat
\* Identities are of rows in tables, and names are strings of bounded length.
ASSUME TablesAssumption ==
  \A ids \in {Keys, Files, Uploads, Stores, Kept, GeminiUploads, Names} : IsFiniteSet(ids)

\* The rows of files and stored rows, and of Vector Stores.
FileType == [key : Keys, bytes : Nat, expires : Nat]
StoreType == [key : Keys, bytes : Nat, days : Nat \cup {None}, active : Nat,
              expires : Nat \cup {None}, batched : BOOLEAN]
ASSUME NoneAssumption == None \notin Nat /\ None \notin FileType \cup StoreType

VARIABLES
  now,      \* the wall clock
  files,    \* openai_files
  uploads,  \* openai_uploads with their parts
  stores,   \* openai_vector_stores with their file batches
  attached, \* openai_vector_store_files: bytes of the row, 0 when there is none
  kept,     \* anthropic_files, stored_responses, stored_chat_completions
  gfiles,   \* gemini_files, by key and name
  guploads  \* gemini_uploads

resourceVars == <<now, files, uploads, stores, attached, kept, gfiles, guploads>>

-----------------------------------------------------------------------------
GeminiNames == (Names \ {None}) \cup GeminiUploads
LiveAt(row, t) == row # None /\ (row.expires # None => row.expires > t)
Live(row) == LiveAt(row, now)
Unless(gone, table) == [i \in DOMAIN table |-> IF i \in gone THEN None ELSE table[i]]

\* What counts against the budget of the keys in K, table by table.
Counted(K, row) == Live(row) /\ row.key \in K
FileRows(K) == {<<"file", f>> : f \in {g \in Files : Counted(K, files[g])}}
UploadRows(K) == {<<"upload", u>> : u \in {v \in Uploads : Counted(K, uploads[v]) /\ uploads[v].status = "pending"}}
StoreRows(K) == {<<"store", s>> : s \in {v \in Stores : Counted(K, stores[v])}}
BatchRows(K) == {<<"batch", s>> : s \in {v \in Stores : Counted(K, stores[v]) /\ stores[v].batched}}
AttachedRows(K) ==
  {<<"attached", p[1], p[2]>> : p \in {q \in Stores \X Files :
     Counted(K, stores[q[1]]) /\ Live(files[q[2]]) /\ attached[q] > 0}}
KeptRows(K) == {<<"kept", x>> : x \in {y \in Kept : Counted(K, kept[y])}}
GeminiFileRows(K) == {<<"gfile", p[1], p[2]>> : p \in {q \in K \X GeminiNames : Live(gfiles[q])}}
GeminiUploadRows(K) ==
  {<<"gupload", g>> : g \in {h \in GeminiUploads : Counted(K, guploads[h]) /\ guploads[h].status = "pending"}}

Retained(K) == FileRows(K) \cup UploadRows(K) \cup StoreRows(K) \cup BatchRows(K) \cup AttachedRows(K)
               \cup KeptRows(K) \cup GeminiFileRows(K) \cup GeminiUploadRows(K)

SizeOf(row) ==
  CASE row[1] = "file"     -> files[row[2]].bytes
    [] row[1] = "upload"   -> uploads[row[2]].bytes
    [] row[1] = "store"    -> stores[row[2]].bytes
    [] row[1] = "batch"    -> 1
    [] row[1] = "attached" -> attached[<<row[2], row[3]>>]
    [] row[1] = "kept"     -> kept[row[2]].bytes
    [] row[1] = "gfile"    -> Len(gfiles[<<row[2], row[3]>>].content)
    [] row[1] = "gupload"  -> Len(Data[row[2]])

Bytes(retained) == SumFunctionOnSet([row \in retained |-> SizeOf(row)], retained)
Within(retained, rows, bytes, maxRows, maxBytes) ==
  /\ Cardinality(retained) + rows <= maxRows
  /\ Bytes(retained) + bytes <= maxBytes

KeysOfOwner(k) == {j \in Keys : UserOf[j] = UserOf[k]}

\* checkRetainedResourceCapacity, after the transaction has deleted some rows.
HasRoomWithout(gone, k, rows, bytes) ==
  /\ Within(Retained(Keys) \ gone, rows, bytes, AllRows, AllBytes)
  /\ Within(Retained(KeysOfOwner(k)) \ gone, rows, bytes, OwnerRows, OwnerBytes)
  /\ Within(Retained({k}) \ gone, rows, bytes, KeyRows, KeyBytes)
HasRoom(k, rows, bytes) == HasRoomWithout({}, k, rows, bytes)

ResourcesInit ==
  /\ now = 0
  /\ files = [f \in Files |-> None]
  /\ uploads = [u \in Uploads |-> None]
  /\ stores = [s \in Stores |-> None]
  /\ attached = [p \in Stores \X Files |-> 0]
  /\ kept = [x \in Kept |-> None]
  /\ gfiles = [p \in Keys \X GeminiNames |-> None]
  /\ guploads = [g \in GeminiUploads |-> None]

NewFile(k, bytes) == [key |-> k, bytes |-> bytes, expires |-> now + FileLife]

-----------------------------------------------------------------------------
(* Files and stored rows. *)

CreateFile(k, f, bytes) ==
  /\ files[f] = None
  /\ HasRoom(k, 1, bytes)
  /\ files' = [files EXCEPT ![f] = NewFile(k, bytes)]
  /\ UNCHANGED <<now, uploads, stores, attached, kept, gfiles, guploads>>

\* A deleted File takes its attachments with it.
Detached(gone, F) == [p \in Stores \X Files |-> IF p[1] \in gone \/ p[2] \in F THEN 0 ELSE attached[p]]

DeleteFile(k, f) ==
  /\ Live(files[f]) /\ files[f].key = k
  /\ files' = [files EXCEPT ![f] = None]
  /\ attached' = Detached({}, {f})
  /\ UNCHANGED <<now, uploads, stores, kept, gfiles, guploads>>

StoreRow(k, x, bytes) ==
  /\ kept[x] = None
  /\ HasRoom(k, 1, bytes)
  /\ kept' = [kept EXCEPT ![x] = NewFile(k, bytes)]
  /\ UNCHANGED <<now, files, uploads, stores, attached, gfiles, guploads>>

\* New metadata of a stored chat completion; only growth is checked.
UpdateChat(k, x, bytes) ==
  /\ Live(kept[x]) /\ kept[x].key = k
  /\ bytes > kept[x].bytes => HasRoom(k, 0, bytes - kept[x].bytes)
  /\ kept' = [kept EXCEPT ![x].bytes = bytes]
  /\ UNCHANGED <<now, files, uploads, stores, attached, gfiles, guploads>>

DeleteRow(k, x) ==
  /\ Live(kept[x]) /\ kept[x].key = k
  /\ kept' = [kept EXCEPT ![x] = None]
  /\ UNCHANGED <<now, files, uploads, stores, attached, gfiles, guploads>>

-----------------------------------------------------------------------------
(* Multipart Uploads: the declared size is reserved, and becomes the File. *)

CreateUpload(k, u, bytes) ==
  /\ uploads[u] = None
  /\ HasRoom(k, 1, bytes)
  /\ uploads' = [uploads EXCEPT ![u] =
       [key |-> k, bytes |-> bytes, status |-> "pending", parts |-> <<>>, expires |-> now + UploadLife]]
  /\ UNCHANGED <<now, files, stores, attached, kept, gfiles, guploads>>

\* Mistake: an expired Upload, whose reservation is gone, is still accepted.
AcceptsExpired(u, k) == uploads[u] # None /\ uploads[u].key = k /\ uploads[u].status = "pending"
Accepts(u, k) == Live(uploads[u]) /\ uploads[u].key = k /\ uploads[u].status = "pending"

AddPart(k, u, bytes) ==
  /\ Accepts(u, k)
  /\ Len(uploads[u].parts) < MaxParts
  /\ bytes <= uploads[u].bytes - SumFunctionOnSet(uploads[u].parts, DOMAIN uploads[u].parts)
  /\ uploads' = [uploads EXCEPT ![u].parts = Append(@, bytes)]
  /\ UNCHANGED <<now, files, stores, attached, kept, gfiles, guploads>>

\* The caller names parts once each, in the order it wants; all of the declared
\* bytes have to be there.
CompleteUpload(k, u, f) ==
  /\ Accepts(u, k) /\ files[f] = None
  /\ \E chosen \in SUBSET (DOMAIN uploads[u].parts) \ {{}} :
       SumFunctionOnSet(uploads[u].parts, chosen) = uploads[u].bytes
  /\ files' = [files EXCEPT ![f] = NewFile(k, uploads[u].bytes)]
  /\ uploads' = [uploads EXCEPT ![u].status = "completed", ![u].parts = <<>>]
  /\ UNCHANGED <<now, stores, attached, kept, gfiles, guploads>>

CancelUpload(k, u) ==
  /\ Accepts(u, k)
  /\ uploads' = [uploads EXCEPT ![u].status = "cancelled", ![u].parts = <<>>]
  /\ UNCHANGED <<now, files, stores, attached, kept, gfiles, guploads>>

-----------------------------------------------------------------------------
(* Vector Stores. *)

Expiry(days, active) == IF days = None THEN None ELSE active + days
\* touchVectorStore
Touched(store, t) == [store EXCEPT !.active = t, !.expires = Expiry(store.days, t)]

\* Files the key may attach to a store, as of time t.
Attachable(k, F, t) == \A f \in F : LiveAt(files[f], t) /\ files[f].key = k
WithFiles(s, F) == [p \in Stores \X Files |-> IF p[1] = s /\ p[2] \in F THEN 1 ELSE attached[p]]

\* A store may be created with Files: all of them or nothing.
CreateStore(k, s, days, F) ==
  /\ stores[s] = None
  /\ Attachable(k, F, now)
  /\ HasRoom(k, 1 + Cardinality(F), 1 + Cardinality(F))
  /\ stores' = [stores EXCEPT ![s] = [key |-> k, bytes |-> 1, days |-> days, active |-> now,
                                      expires |-> Expiry(days, now), batched |-> FALSE]]
  /\ attached' = WithFiles(s, F)
  /\ UNCHANGED <<now, files, uploads, kept, gfiles, guploads>>

\* The handler read the clock at t.  The new expiry counts from the last
\* activity, and may lie in the past.
UpdateStore(k, s, bytes, days, t) ==
  /\ LiveAt(stores[s], t) /\ stores[s].key = k
  /\ bytes > stores[s].bytes => HasRoom(k, 0, bytes - stores[s].bytes)
  /\ stores' = [stores EXCEPT ![s].bytes = bytes, ![s].days = days,
                              ![s].expires = Expiry(days, stores[s].active)]
  /\ UNCHANGED <<now, files, uploads, attached, kept, gfiles, guploads>>

DeleteStore(k, s) ==
  /\ Live(stores[s]) /\ stores[s].key = k
  /\ stores' = [stores EXCEPT ![s] = None]
  /\ attached' = Detached({s}, {})
  /\ UNCHANGED <<now, files, uploads, kept, gfiles, guploads>>

AttachFile(k, s, f, t) ==
  /\ LiveAt(stores[s], t) /\ stores[s].key = k
  /\ Attachable(k, {f}, t) /\ attached[<<s, f>>] = 0
  /\ HasRoom(k, 1, 1)
  /\ attached' = WithFiles(s, {f})
  /\ stores' = [stores EXCEPT ![s] = Touched(@, t)]
  /\ UNCHANGED <<now, files, uploads, kept, gfiles, guploads>>

\* A file batch is a row of its own, and attaches its Files in the same transaction.
CreateFileBatch(k, s, F, t) ==
  /\ LiveAt(stores[s], t) /\ stores[s].key = k /\ ~stores[s].batched
  /\ Attachable(k, F, t) /\ \A f \in F : attached[<<s, f>>] = 0
  /\ HasRoom(k, 1 + Cardinality(F), 1 + Cardinality(F))
  /\ attached' = WithFiles(s, F)
  /\ stores' = [stores EXCEPT ![s] = [Touched(@, t) EXCEPT !.batched = TRUE]]
  /\ UNCHANGED <<now, files, uploads, kept, gfiles, guploads>>

Shown(k, s, f, t) == /\ LiveAt(stores[s], t) /\ stores[s].key = k
                     /\ LiveAt(files[f], t) /\ files[f].key = k
                     /\ attached[<<s, f>>] > 0

UpdateAttributes(k, s, f, bytes) ==
  /\ Shown(k, s, f, now)
  /\ bytes > attached[<<s, f>>] => HasRoom(k, 0, bytes - attached[<<s, f>>])
  /\ attached' = [attached EXCEPT ![<<s, f>>] = bytes]
  /\ stores' = [stores EXCEPT ![s] = Touched(@, now)]
  /\ UNCHANGED <<now, files, uploads, kept, gfiles, guploads>>

DetachFile(k, s, f, t) ==
  /\ Shown(k, s, f, t)
  /\ attached' = [attached EXCEPT ![<<s, f>>] = 0]
  /\ stores' = [stores EXCEPT ![s] = Touched(@, t)]
  /\ UNCHANGED <<now, files, uploads, kept, gfiles, guploads>>

-----------------------------------------------------------------------------
(* Gemini Files. *)

\* The rows an upload that starts sweeps away: uploads by their own identity,
\* Files by name alone, whoever they belong to.
SweptUploads == [g \in GeminiUploads |-> IF Live(guploads[g]) THEN guploads[g] ELSE None]
Swept == LET names == {p[2] : p \in {q \in Keys \X GeminiNames : gfiles[q] # None /\ ~Live(gfiles[q])}}
         IN  {p \in Keys \X GeminiNames : p[2] \in names}

\* The client may ask for a name; None is a random one.
StartUpload(k, g, name) ==
  /\ SweptUploads[g] = None
  /\ HasRoomWithout({<<"gfile", p[1], p[2]>> : p \in Swept}, k, 1, Len(Data[g]))
  /\ gfiles' = Unless(Swept, gfiles)
  /\ guploads' = [SweptUploads EXCEPT ![g] =
       [key |-> k, name |-> name, status |-> "pending", content |-> <<>>, expires |-> now + UploadLife]]
  /\ UNCHANGED <<now, files, uploads, stores, attached, kept>>

\* What the upload holds once a chunk of its client's bytes arrives at the
\* offset: a repeated chunk has to agree with what is there.
Chunk(g, offset, length) == SubSeq(Data[g], offset + 1, offset + length)
Agrees(g, offset, length) ==
  /\ offset + length <= Len(guploads[g].content)
  /\ SubSeq(guploads[g].content, offset + 1, offset + length) = Chunk(g, offset, length)
\* Mistake: a repeated chunk is appended like a new one.
AssembledBlindly(g, offset, length) == guploads[g].content \o Chunk(g, offset, length)
Assembled(g, offset, length) ==
  IF offset < Len(guploads[g].content) THEN guploads[g].content
  ELSE guploads[g].content \o Chunk(g, offset, length)
TakesChunk(g, offset, length) ==
  /\ Live(guploads[g]) /\ guploads[g].status = "pending"
  /\ offset <= Len(guploads[g].content)
  /\ length <= Len(Data[g]) - offset
  /\ offset < Len(guploads[g].content) => Agrees(g, offset, length)

UploadChunk(g, offset, length) ==
  /\ length > 0
  /\ TakesChunk(g, offset, length)
  /\ guploads' = [guploads EXCEPT ![g].content = Assembled(g, offset, length)]
  /\ UNCHANGED <<now, files, uploads, stores, attached, kept, gfiles>>

\* finalize, with or without a last chunk.  A row of the same name, expired or
\* not, refuses it.
FinalizeUpload(g, offset, length) ==
  LET content == Assembled(g, offset, length)
      file == <<guploads[g].key, IF guploads[g].name = None THEN g ELSE guploads[g].name>>
  IN  /\ TakesChunk(g, offset, length)
      /\ Len(content) = Len(Data[g])
      /\ gfiles[file] = None
      /\ gfiles' = [gfiles EXCEPT ![file] = [content |-> content, by |-> g, expires |-> now + FileLife]]
      /\ guploads' = [guploads EXCEPT ![g].status = "completed", ![g].content = <<>>]
      /\ UNCHANGED <<now, files, uploads, stores, attached, kept>>

DeleteGeminiFile(k, n) ==
  /\ Live(gfiles[<<k, n>>])
  /\ gfiles' = [gfiles EXCEPT ![<<k, n>>] = None]
  /\ UNCHANGED <<now, files, uploads, stores, attached, kept, guploads>>

-----------------------------------------------------------------------------
(* Time and retention. *)

ClockTicks == now < MaxTime /\ now' = now + 1 /\ UNCHANGED <<files, uploads, stores, attached, kept, gfiles, guploads>>

\* One DELETE per table: rows expired for at least a tick, as it compares strictly.
Stale(table) == {i \in DOMAIN table : table[i] # None /\ table[i].expires # None /\ table[i].expires < now}
Cleanup(name, table) == IF name THEN Unless(Stale(table), table) ELSE table

Tables == [files |-> files, stores |-> stores, uploads |-> uploads, kept |-> kept,
           gfiles |-> gfiles, guploads |-> guploads]

CleanupStale(name) ==
  /\ Stale(Tables[name]) # {}
  /\ files' = Cleanup(name = "files", files)
  /\ stores' = Cleanup(name = "stores", stores)
  /\ attached' = Detached({s \in Stores : stores'[s] = None}, {f \in Files : files'[f] = None})
  /\ uploads' = Cleanup(name = "uploads", uploads)
  /\ kept' = Cleanup(name = "kept", kept)
  /\ gfiles' = Cleanup(name = "gfiles", gfiles)
  /\ guploads' = Cleanup(name = "guploads", guploads)
  /\ UNCHANGED now

ReadAt == {t \in {now - w : w \in Waits} : t >= 0}

FileActions ==
  \E k \in Keys :
    \/ \E f \in Files : DeleteFile(k, f) \/ \E b \in Sizes : CreateFile(k, f, b)
    \/ \E x \in Kept : DeleteRow(k, x) \/ \E b \in Sizes : StoreRow(k, x, b) \/ UpdateChat(k, x, b)
    \/ \E u \in Uploads :
         \/ CancelUpload(k, u)
         \/ \E b \in Sizes : CreateUpload(k, u, b) \/ AddPart(k, u, b)
         \/ \E f \in Files : CompleteUpload(k, u, f)

StoreActions ==
  \E k \in Keys, s \in Stores :
    \/ DeleteStore(k, s)
    \/ \E d \in Days : \/ \E F \in SUBSET Files : CreateStore(k, s, d, F)
                      \/ \E b \in Sizes, t \in ReadAt : UpdateStore(k, s, b, d, t)
    \/ \E F \in SUBSET Files \ {{}}, t \in ReadAt : CreateFileBatch(k, s, F, t)
    \/ \E f \in Files :
         \/ \E b \in Sizes : UpdateAttributes(k, s, f, b)
         \/ \E t \in ReadAt : DetachFile(k, s, f, t) \/ AttachFile(k, s, f, t)

GeminiActions ==
  \/ \E k \in Keys, n \in GeminiNames : DeleteGeminiFile(k, n)
  \/ \E g \in GeminiUploads :
       \/ \E k \in Keys, n \in Names : StartUpload(k, g, n)
       \/ \E offset, length \in 0..Len(Data[g]) : UploadChunk(g, offset, length) \/ FinalizeUpload(g, offset, length)

ResourcesNext == FileActions \/ StoreActions \/ GeminiActions \/ ClockTicks
                 \/ \E name \in DOMAIN Tables : CleanupStale(name)

ResourcesSpec == ResourcesInit /\ [][ResourcesNext]_resourceVars
-----------------------------------------------------------------------------
(* Properties. *)

\* checkRetainedResourceCapacity (response_storage.go:96) as a statement about
\* what is there: a key, its owner and the gateway keep no more than their caps.
WithinLimits ==
  /\ Within(Retained(Keys), 0, 0, AllRows, AllBytes)
  /\ \A k \in Keys : /\ Within(Retained(KeysOfOwner(k)), 0, 0, OwnerRows, OwnerBytes)
                     /\ Within(Retained({k}), 0, 0, KeyRows, KeyBytes)

\* An expired Vector Store, which counts for nothing, is touched by a handler
\* whose clock was read before it waited, and counts again with all its Files.
Revives == \E s \in Stores : stores[s] # None /\ ~Live(stores[s]) /\ Live(stores[s])'

\* Whatever expires, completes, grows or is deleted in whatever order, no step
\* takes what a key, its owner or the gateway keeps over the caps, although
\* completing an Upload or a Gemini upload inserts its File without asking
\* (uploads.go:253, gemini_files.go:264). Reviving a Vector Store is the
\* exception that touchVectorStore (vector_store_files.go:119) makes.
BudgetIsKept == [][~WithinLimits' => ~WithinLimits \/ Revives]_resourceVars

\* A Gemini File holds exactly the bytes its client set out to send, once each
\* and in order, however chunks were repeated, cut differently the second time
\* or finalized twice (gemini_files.go:264).
GeminiFilesAreComplete ==
  \A p \in DOMAIN gfiles : gfiles[p] # None => gfiles[p].content = Data[gfiles[p].by]

=============================================================================
