----------------------------- MODULE JsonStorage -----------------------------
(***************************************************************************)
(* The JSON token store of src/src/storage/json.rs: a JsonStorage holds an *)
(* in-memory cache (the memory backend, uid -> object) in front of one     *)
(* file.  open loads the file and primes the cache; store and             *)
(* remove_by_uid change the cache and then flush, which writes every token *)
(* object of the cache back to the file with std::fs::write.              *)
(*                                                                         *)
(* An object is abstracted to its CKA_UNIQUE_ID, its CKA_TOKEN flag and   *)
(* one string attribute (CKA_LABEL).  The file is Missing, Torn (a write  *)
(* that stopped part-way left text that does not parse) or the set of     *)
(* JSON objects of the last complete write.  std::fs::write truncates the *)
(* file and then writes it: when it fails, the file is either left alone  *)
(* (the open failed) or torn, and a crash of the process in the middle of *)
(* a flush tears it as well.  The cache lives in memory and is lost by a  *)
(* crash.                                                                  *)
(***************************************************************************)
EXTENDS Naturals, FiniteSets

CONSTANTS
  Uids,           \* unique ids callers give objects
  Labels,         \* values of the string attribute callers may store
  NonUtf8,        \* a string attribute whose bytes are not valid UTF-8
  Base64Text,     \* the base64 text of NonUtf8's bytes: a valid string
  SaveOutcomes    \* what std::fs::write may do: "ok", "open_fails", "torn"

ASSUME SaveOutcomesAssumption ==
  /\ "ok" \in SaveOutcomes
  /\ SaveOutcomes \subseteq {"ok", "open_fails", "torn"}
ASSUME LabelsAssumption == Base64Text \notin Labels \cup {NonUtf8}
(* Callers store only valid UTF-8 strings: a String attribute is UTF-8     *)
(* (spec section 3) and every one under src/ is built from a Rust String,  *)
(* so the base64 fallback of to_json_value is never taken.                 *)
ASSUME Utf8LabelsAssumption == NonUtf8 \notin Labels

VARIABLES
  cache,    \* the memory backend: cache[uid] is the object stored under uid
  file,     \* the token file on disk
  opened,   \* open has succeeded since the process started
  call,     \* the last call
  rv,       \* its return value
  acked     \* history: the token objects as of the last store or
            \* remove_by_uid that returned OK

vars == <<cache, file, opened, call, rv, acked>>

-----------------------------------------------------------------------------
OK == "OK"
NotInitialized == "CRYPTOKI_NOT_INITIALIZED"
ParseError == "PARSE_ERROR"         \* serde_json::Error from from_reader
IoError == "IO_ERROR"               \* Error::other_error from save
NotFound == "NOT_FOUND"             \* memory backend: no object for uid
RVs == {OK, NotInitialized, ParseError, IoError, NotFound}

StoredLabels == Labels \cup {NonUtf8, Base64Text}
Objects == [uid : Uids, token : BOOLEAN, label : StoredLabels]
JsonObjects == [uid : Uids, token : BOOLEAN, label : Labels \cup {Base64Text}]
(* The token file: missing, torn, or a JSON token holding objects.        *)
JsonFile(jt) == [kind |-> "json", objects |-> jt]
Missing == [kind |-> "missing", objects |-> {}]
Torn == [kind |-> "torn", objects |-> {}]
Files == {Missing, Torn} \cup {JsonFile(jt) : jt \in SUBSET JsonObjects}

(* A cache maps uids to objects that carry that uid.                      *)
IsCache(c) ==
  /\ DOMAIN c \subseteq Uids
  /\ \A u \in DOMAIN c : c[u] \in Objects /\ c[u].uid = u

-----------------------------------------------------------------------------
(* to_json_value of a string attribute: the string, or the base64 of its  *)
(* bytes when they are not UTF-8 (json.rs 24-27).  Under                   *)
(* Utf8LabelsAssumption only the first branch is reached.                  *)
ToJsonString(l) == IF l = NonUtf8 THEN Base64Text ELSE l

(* JsonObject::from_object                                                *)
FromObject(o) == [uid |-> o.uid, token |-> o.token, label |-> ToJsonString(o.label)]

FromCacheAllObjects(c) == {FromObject(c[u]) : u \in DOMAIN c}

(* JsonToken::from_cache: the objects of a search with an empty template, *)
(* keeping those with CKA_TOKEN true.                                      *)
FromCache(c) == {FromObject(c[u]) : u \in {v \in DOMAIN c : c[v].token}}

ToObjectTokenDefault(jo) == [uid |-> jo.uid, token |-> FALSE, label |-> jo.label]

(* One object of prime_cache: each attribute read back by its type        *)
(* (strings as they are), the uid taken from CKA_UNIQUE_ID.               *)
ToObject(jo) == [uid |-> jo.uid, token |-> jo.token, label |-> jo.label]

(* JsonToken::prime_cache: cache.store(uid, obj) for every object of the  *)
(* file, over what the cache already holds.                                *)
PrimeCache(c, jt) ==
  LET uids == {jo.uid : jo \in jt} IN
  [u \in DOMAIN c \cup uids |->
     IF u \in uids THEN ToObject(CHOOSE jo \in jt : jo.uid = u) ELSE c[u]]

(* memory backend store and remove_by_uid (not in this repository).       *)
CacheStore(c, u, o) == [v \in DOMAIN c \cup {u} |-> IF v = u THEN o ELSE c[v]]
CacheRemove(c, u) == [v \in DOMAIN c \ {u} |-> c[v]]

(* The token objects of a cache.                                           *)
Tokens(c) == [u \in {v \in DOMAIN c : c[v].token} |-> c[u]]

(* JsonStorage::flush from cache c: save(from_cache(c)) with outcome s.   *)
SavedFile(c, s) ==
  CASE s = "ok"         -> JsonFile(FromCache(c))
    [] s = "open_fails" -> file
    [] s = "torn"       -> Torn
SaveRv(s) == IF s = "ok" THEN OK ELSE IoError

(* A mutation that returned OK moves the acknowledged state.              *)
Ack(c, s) == acked' = IF s = "ok" THEN Tokens(c) ELSE acked

-----------------------------------------------------------------------------
(* json(): an empty cache; the token file was initialised empty, or the   *)
(* token was never initialised and there is no file.                      *)
Init ==
  /\ cache = [u \in {} |-> CHOOSE o \in Objects : TRUE]
  /\ file \in {JsonFile({}), Missing}
  /\ opened = FALSE
  /\ call = "none"
  /\ rv = OK
  /\ acked = [u \in {} |-> CHOOSE o \in Objects : TRUE]

(* open: JsonToken::load, then prime_cache.                                *)
Open ==
  /\ ~opened
  /\ call' = "open"
  /\ IF file \in {Missing, Torn}
     THEN /\ rv' = IF file = Missing THEN NotInitialized ELSE ParseError
          /\ UNCHANGED <<cache, opened>>
     ELSE /\ cache' = PrimeCache(cache, file.objects)
          /\ rv' = OK
          /\ opened' = TRUE
  /\ UNCHANGED <<file, acked>>

StoreFlushFirst ==
  \E u \in Uids, t \in BOOLEAN, l \in Labels, s \in SaveOutcomes :
    LET o == [uid |-> u, token |-> t, label |-> l] IN
    /\ opened
    /\ cache' = CacheStore(cache, u, o)
    /\ file' = SavedFile(cache, s)
    /\ rv' = SaveRv(s)
    /\ Ack(cache', s)
    /\ call' = "store"
    /\ UNCHANGED opened

(* store(uid, obj): cache.store, then flush.  The object carries the uid  *)
(* it is stored under as its CKA_UNIQUE_ID, as every caller provides.     *)
Store ==
  \E u \in Uids, t \in BOOLEAN, l \in Labels, s \in SaveOutcomes :
    LET o == [uid |-> u, token |-> t, label |-> l] IN
    /\ opened
    /\ cache' = CacheStore(cache, u, o)
    /\ file' = SavedFile(cache', s)
    /\ rv' = SaveRv(s)
    /\ Ack(cache', s)
    /\ call' = "store"
    /\ UNCHANGED opened

(* remove_by_uid(uid): cache.remove_by_uid, which fails for an unknown    *)
(* uid before any flush, then flush.                                       *)
RemoveByUid ==
  \E u \in Uids, s \in SaveOutcomes :
    /\ opened
    /\ call' = "remove"
    /\ IF u \notin DOMAIN cache
       THEN /\ rv' = NotFound
            /\ UNCHANGED <<cache, file, acked>>
       ELSE /\ cache' = CacheRemove(cache, u)
            /\ file' = SavedFile(cache', s)
            /\ rv' = SaveRv(s)
            /\ Ack(cache', s)
  /\ UNCHANGED opened

(* reinit: a TODO that returns Ok(()).                                    *)
Reinit ==
  /\ opened
  /\ call' = "reinit"
  /\ rv' = OK
  /\ UNCHANGED <<cache, file, opened, acked>>

(* The process dies: the cache is gone.  A crash in the middle of the     *)
(* std::fs::write of a store or remove_by_uid leaves a torn file.          *)
Crash ==
  /\ cache' = [u \in {} |-> CHOOSE o \in Objects : TRUE]
  /\ opened' = FALSE
  /\ \/ file' = file
     \/ opened /\ "torn" \in SaveOutcomes /\ file' = Torn
  /\ call' = "crash"
  /\ rv' = OK
  /\ UNCHANGED acked

Next == Open \/ Store \/ RemoveByUid \/ Reinit \/ Crash

Spec == Init /\ [][Next]_vars

-----------------------------------------------------------------------------
TypeOK ==
  /\ IsCache(cache)
  /\ file \in Files
  /\ opened \in BOOLEAN
  /\ call \in {"none", "open", "store", "remove", "reinit", "crash"}
  /\ rv \in RVs
  /\ IsCache(acked)

(* After an open, store or remove_by_uid that returned OK, the file holds *)
(* exactly the token objects of the cache, encoded: flush writes what the *)
(* cache holds after the change, and only the token objects, and a failed *)
(* flush is repaired by the next one that succeeds.                        *)
FileMatchesCache ==
  call \in {"open", "store", "remove"} /\ rv = OK =>
    /\ file.kind = "json"
    /\ {jo.uid : jo \in file.objects} = {u \in DOMAIN cache : cache[u].token}
    /\ \A jo \in file.objects : jo = FromObject(cache[jo.uid])

(* An open of an initialised token (its file exists), after a start or a  *)
(* crash, succeeds and brings back exactly the token objects as of the    *)
(* last store or remove_by_uid that returned OK (the spec: store, then    *)
(* open, then fetch_by_uid returns the object).                            *)
ReopenRecoversAcked ==
  call = "open" /\ file # Missing => rv = OK /\ Tokens(cache) = acked
=============================================================================
