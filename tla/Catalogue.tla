------------------------------- MODULE Catalogue -------------------------------
(***************************************************************************)
(* The catalogue of a client: imports of files, which a model reads and    *)
(* which are written in chunks, beside edits of single items.              *)
(***************************************************************************)
EXTENDS Integers, Sequences, SequencesExt

CONSTANTS
    Skus,
    Batches,        \* what the model may return for a part of a file: rows, at least one
    Files,          \* the files: kind, size, and whether a table has the columns it must have
    RowsPerCall,    \* CATALOG_IMPORT_ROWS_PER_LLM_BATCH
    TextPerCall,    \* CATALOG_IMPORT_UNSTRUCTURED_TEXT_CHUNK_CHARS
    Uploads,        \* concurrent imports and bulk upserts
    DbChunk,        \* CATALOG_IMPORT_DB_CHUNK_SIZE
    MaxEdits,       \* bound: edits of single items
    MaxLosses       \* bound: failed calls and crashes

\* A price is an amount, or NoAmount; NoCurrency is a currency left out.
NoAmount == 0
NoCurrency == "-"
NoItem == [name |-> 0]
CatalogueRow == [sku : Skus, name : 1..2, amount : 0..2, currency : {NoCurrency, "EUR", "USD"}]
Priced(r) == r.amount # NoAmount

\* clientCatalogItemUpsertSchema
Valid(r) == Priced(r) => r.currency # NoCurrency

ASSUME CatalogueAssumption ==
    /\ Batches \subseteq Seq({r \in CatalogueRow : Valid(r)}) \ {<<>>}
    /\ Files \subseteq [kind : {"table", "text", "picture"}, size : Nat, columns : BOOLEAN]
    /\ {RowsPerCall, TextPerCall, DbChunk} \subseteq Nat \ {0} /\ "edit" \notin Uploads
    /\ MaxEdits \in Nat /\ MaxLosses \in Nat

VARIABLES
    item,      \* per SKU: its row and whether it is active, or NoItem
    upload,    \* per upload: pc, parts left, the list to write, chunks committed
    writer,    \* (history) per SKU: the upload that wrote it last, or "edit"
    cleared,   \* (history) SKUs with an amount whose currency an edit cleared
    edits, losses

catalogueVars == <<item, upload, writer, cleared, edits, losses>>

CatalogueInit ==
    /\ item = [s \in Skus |-> NoItem]
    /\ upload = [u \in Uploads |-> [pc |-> "new"]]
    /\ writer = [s \in Skus |-> "edit"] /\ cleared = {}
    /\ edits = 0 /\ losses = 0

------------------------------------------------------------------------------
(* Imports *)

Ask(u, pc) == upload' = [upload EXCEPT ![u].pc = pc]
Lose == losses < MaxLosses /\ losses' = losses + 1

\* A table needs rows and the columns, a text some text.
Readable(f) ==
    /\ f.kind # "picture" => f.size > 0
    /\ f.kind = "table" => f.columns

\* The calls of the model a file takes; a PDF of a few pages is a picture.
WorkUnits(f) ==
    CASE f.kind = "table" -> (f.size + RowsPerCall - 1) \div RowsPerCall
      [] f.kind = "text" -> (f.size + TextPerCall - 1) \div TextPerCall
      [] f.kind = "picture" -> 1

\* A file is accepted, or a list of rows for a bulk upsert.
BeginImport(u, f) ==
    /\ upload[u].pc = "new"
    /\ upload' = [upload EXCEPT ![u] = [pc |-> IF Readable(f) THEN "extract" ELSE "400",
                    parts |-> WorkUnits(f), list |-> <<>>, committed |-> 0]]
    /\ UNCHANGED <<item, writer, cleared, edits, losses>>

BeginBulk(u, list) ==
    /\ upload[u].pc = "new"
    /\ upload' = [upload EXCEPT ![u] = [pc |-> "write", parts |-> 0, list |-> list, committed |-> 0]]
    /\ UNCHANGED <<item, writer, cleared, edits, losses>>

\* assertNoConflictingDuplicatesInBatch
Conflicting(batch) == \E i, j \in DOMAIN batch :
    batch[i].sku = batch[j].sku /\ batch[i] # batch[j]

\* The map by SKU: a row that is in it already is replaced where it stands.
Put(list, r) ==
    IF \E i \in DOMAIN list : list[i].sku = r.sku
    THEN [i \in DOMAIN list |-> IF list[i].sku = r.sku THEN r ELSE list[i]]
    ELSE Append(list, r)

Merge(list, batch) ==
    LET merged[k \in 0..Len(batch)] == IF k = 0 THEN list ELSE Put(merged[k - 1], batch[k])
    IN  merged[Len(batch)]

\* The model reads the next part; after the last the rows are written.
ExtractPart(u, batch) ==
    /\ upload[u].pc = "extract"
    /\ LET left == upload[u].parts - 1
           list == IF Conflicting(batch) THEN upload[u].list ELSE Merge(upload[u].list, batch)
           pc == IF Conflicting(batch) THEN "400" ELSE IF left > 0 THEN "extract" ELSE "write"
       IN  upload' = [upload EXCEPT ![u] = [@ EXCEPT !.pc = pc, !.parts = left, !.list = list]]
    /\ UNCHANGED <<item, writer, cleared, edits, losses>>

ExtractionFails(u) ==
    /\ upload[u].pc = "extract" /\ Lose /\ Ask(u, "502")
    /\ UNCHANGED <<item, writer, cleared, edits>>

\* What an upsert makes of an item: a field the row leaves out is left as it is.
Upserted(old, r) ==
    IF old = NoItem THEN [name |-> r.name, amount |-> r.amount, currency |-> r.currency, active |-> TRUE]
    ELSE [name |-> r.name, active |-> TRUE,
          amount |-> IF Priced(r) THEN r.amount ELSE old.amount,
          currency |-> IF r.currency = NoCurrency THEN old.currency ELSE r.currency]

\* What an item has become after each of the rows.
Upserts(s, rows) ==
    LET after[k \in 0..Len(rows)] == IF k = 0 THEN item[s]
                                     ELSE IF rows[k].sku # s THEN after[k - 1]
                                     ELSE Upserted(after[k - 1], rows[k])
    IN  after

\* Variant: the loop runs over full chunks only.
MutantLeft_FullOnly(u) == Len(upload[u].list) - upload[u].committed * DbChunk - DbChunk + 1

\* Rows that are not written yet.
Left(u) == Len(upload[u].list) - upload[u].committed * DbChunk

Chunk(u) ==
    LET n == upload[u].committed * DbChunk IN
    SubSeq(upload[u].list, n + 1, IF Left(u) < DbChunk THEN Len(upload[u].list) ELSE n + DbChunk)

\* The next chunk, in a transaction and in any order; after the last the answer.
WriteChunk(u) ==
    /\ upload[u].pc = "write"
    /\ IF Left(u) <= 0 THEN Ask(u, "ok") /\ UNCHANGED <<item, writer, cleared>>
       ELSE LET rows == Chunk(u)  here == {rows[i].sku : i \in DOMAIN rows} IN
            /\ \E order \in Bijection(DOMAIN rows, DOMAIN rows) :
                 item' = [s \in Skus |-> Upserts(s, [k \in DOMAIN rows |-> rows[order[k]]])[Len(rows)]]
            /\ writer' = [s \in Skus |-> IF s \in here THEN u ELSE writer[s]]
            /\ cleared' = {s \in cleared : item'[s].currency = NoCurrency}
            /\ upload' = [upload EXCEPT ![u].committed = @ + 1]
    /\ UNCHANGED <<edits, losses>>

\* The chunk is rolled back, and the answer says how many were not.
ChunkFails(u) ==
    /\ upload[u].pc = "write" /\ Left(u) > 0 /\ Lose /\ Ask(u, "502")
    /\ UNCHANGED <<item, writer, cleared, edits>>

------------------------------------------------------------------------------
(* Edits of single items *)

Edit(s, new) ==
    /\ edits < MaxEdits /\ edits' = edits + 1
    /\ item' = [item EXCEPT ![s] = new]
    /\ writer' = [writer EXCEPT ![s] = "edit"]
    /\ UNCHANGED <<upload, losses>>

\* create: the SKU must be new, active or not.
AddItem(r) ==
    /\ item[r.sku] = NoItem /\ Edit(r.sku, Upserted(NoItem, r))
    /\ UNCHANGED cleared

\* update with a price, which must come with its currency; or with the currency alone, which
\* may be cleared.  An item that was removed is changed too, and then reported as not found.
SetPrice(s, amount, currency) ==
    /\ item[s] # NoItem /\ (amount # NoAmount => currency # NoCurrency)
    /\ Edit(s, [item[s] EXCEPT !.amount = amount, !.currency = currency])
    /\ cleared' = cleared \ {s}

SetCurrency(s, currency) ==
    /\ item[s] # NoItem
    /\ Edit(s, [item[s] EXCEPT !.currency = currency])
    /\ cleared' = IF currency = NoCurrency /\ Priced(item[s]) THEN cleared \cup {s} ELSE cleared \ {s}

\* softDelete, or update with `active`.
SetActive(s, on) ==
    /\ item[s] # NoItem /\ Edit(s, [item[s] EXCEPT !.active = on])
    /\ UNCHANGED cleared

\* update with another SKU, which must be free.
Rename(s, t) ==
    /\ item[s] # NoItem /\ item[t] = NoItem /\ edits < MaxEdits /\ edits' = edits + 1
    /\ item' = [item EXCEPT ![s] = NoItem, ![t] = item[s]]
    /\ writer' = [writer EXCEPT ![s] = "edit", ![t] = "edit"]
    /\ cleared' = IF s \in cleared THEN (cleared \ {s}) \cup {t} ELSE cleared
    /\ UNCHANGED <<upload, losses>>

CatalogueNext ==
    \/ \E u \in Uploads :
         \/ \E f \in Files : BeginImport(u, f)
         \/ \E b \in Batches : BeginBulk(u, b) \/ ExtractPart(u, b)
         \/ ExtractionFails(u) \/ WriteChunk(u) \/ ChunkFails(u)
    \/ \E b \in Batches : \E i \in DOMAIN b : AddItem(b[i])
    \/ \E s \in Skus :
         \/ \E a \in 0..1, c \in {NoCurrency, "EUR"} : SetPrice(s, a, c)
         \/ item[s] # NoItem /\ SetPrice(s, NoAmount, item[s].currency)
         \/ \E c \in {NoCurrency, "EUR"} : SetCurrency(s, c)
         \/ \E on \in BOOLEAN : SetActive(s, on)
         \/ \E t \in Skus : Rename(s, t)

CatalogueSpec == CatalogueInit /\ [][CatalogueNext]_catalogueVars

------------------------------------------------------------------------------
(* Properties *)

\* "currency is required when unitAmountMinor is set" (client-catalog-item.contract.ts:34):
\* an item with an amount lacks a currency only if an edit cleared the currency alone.
CatalogueTypeOK ==
    /\ \A s \in Skus : item[s] # NoItem =>
         /\ [sku |-> s, name |-> item[s].name, amount |-> item[s].amount,
             currency |-> item[s].currency] \in CatalogueRow
         /\ item[s].currency = NoCurrency /\ Priced(item[s]) => s \in cleared
    /\ edits \in 0..MaxEdits /\ losses \in 0..MaxLosses

SkusOf(list) == {list[i].sku : i \in DOMAIN list}
AsUploaded(s, list) == \E i \in DOMAIN list :
    /\ list[i].sku = s /\ item[s].name = list[i].name /\ item[s].active
    /\ Priced(list[i]) => item[s].amount = list[i].amount /\ item[s].currency = list[i].currency

\* "Each successful chunk was committed atomically; the failing chunk was rolled back"
\* (client-catalog-items.service.ts:35): an upload has written what it reports, all, nothing or
\* the chunks it counts, and what nobody wrote since is as uploaded.
UploadReportsTruth ==
    \A u \in Uploads : upload[u].pc \in {"ok", "502", "400"} =>
        LET list == upload[u].list
            told == IF upload[u].pc = "ok" THEN list
                    ELSE SubSeq(list, 1, upload[u].committed * DbChunk)
        IN  /\ \A s \in Skus : writer[s] = u => s \in SkusOf(told) /\ AsUploaded(s, told)
            /\ (\A v \in Uploads : v # u => upload[v].pc = "new") /\ edits = 0
                  => \A s \in SkusOf(told) : writer[s] = u
================================================================================
