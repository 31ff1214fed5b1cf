------------------------- MODULE JsonStorageProofs -------------------------
(***************************************************************************)
(* Proofs about the JSON token store of JsonStorage                        *)
(* (src/src/storage/json.rs), for every set of uids and labels and every   *)
(* set of outcomes of std::fs::write:                                      *)
(*   - the type invariant;                                                 *)
(*   - after an open, store or remove_by_uid that returned OK, the file   *)
(*     holds exactly the token objects of the cache.                      *)
(*   - when no write tears the file, an open restores exactly the        *)
(*     acknowledged token objects.                                        *)
(* FileMatchesCache is not inductive alone: an open primes the cache from *)
(* the file, so the proof needs that the cache is empty before an open    *)
(* (it starts empty and a crash empties it) and that every JSON object in *)
(* the file is a token object, has a uid no other object of the file has, *)
(* and holds no non-UTF-8 string (flush writes its base64 text instead).  *)
(***************************************************************************)
EXTENDS JsonStorage, TLAPS

(* The JSON objects of a file that flush wrote.                           *)
FileInv ==
  file.kind = "json" =>
    /\ \A jo \in file.objects : jo.token /\ jo.label # NonUtf8
    /\ \A j1, j2 \in file.objects : j1.uid = j2.uid => j1 = j2

(* A storage that is not open holds nothing in its cache.                 *)
ClosedEmpty == ~opened => DOMAIN cache = {}

IInv ==
  /\ TypeOK
  /\ ClosedEmpty
  /\ FileInv
  /\ FileMatchesCache

-----------------------------------------------------------------------------
(* The memory backend keeps a cache a cache.                              *)
LEMMA CacheStoreIsCache ==
  ASSUME NEW c, IsCache(c), NEW u \in Uids, NEW o \in Objects, o.uid = u
  PROVE  IsCache(CacheStore(c, u, o))
  BY DEF IsCache, CacheStore

LEMMA CacheRemoveIsCache ==
  ASSUME NEW c, IsCache(c), NEW u
  PROVE  IsCache(CacheRemove(c, u))
  BY DEF IsCache, CacheRemove

LEMMA TokensIsCache ==
  ASSUME NEW c, IsCache(c)
  PROVE  IsCache(Tokens(c))
  BY DEF IsCache, Tokens

LEMMA EmptyIsCache ==
  IsCache([u \in {} |-> CHOOSE o \in Objects : TRUE])
  BY DEF IsCache

(* What flush writes from a cache: JSON objects, one per token object,    *)
(* each the encoding of the object its uid names.                         *)
LEMMA FromCacheFacts ==
  ASSUME NEW c, IsCache(c)
  PROVE  LET jt == FromCache(c) IN
         /\ jt \in SUBSET JsonObjects
         /\ \A jo \in jt : jo.token /\ jo.label # NonUtf8
         /\ \A j1, j2 \in jt : j1.uid = j2.uid => j1 = j2
         /\ {jo.uid : jo \in jt} = {u \in DOMAIN c : c[u].token}
         /\ \A jo \in jt : jo = FromObject(c[jo.uid])
<1> DEFINE jt == FromCache(c)
<1>1. \A u \in DOMAIN c : FromObject(c[u]).uid = u
  BY DEF IsCache, FromObject
<1>2. ASSUME NEW jo \in jt
      PROVE  \E u \in DOMAIN c : c[u].token /\ jo = FromObject(c[u])
  BY DEF FromCache
<1>3. ASSUME NEW u \in DOMAIN c
      PROVE  FromObject(c[u]) \in JsonObjects /\ FromObject(c[u]).label # NonUtf8
  BY LabelsAssumption DEF IsCache, Objects, StoredLabels, FromObject,
                          ToJsonString, JsonObjects
<1>4. jt \in SUBSET JsonObjects
  BY <1>2, <1>3
<1>5. \A jo \in jt : jo.token /\ jo.label # NonUtf8
  BY <1>2, <1>3 DEF FromObject
<1>6. \A jo \in jt : jo = FromObject(c[jo.uid])
  BY <1>1, <1>2
<1>7. \A j1, j2 \in jt : j1.uid = j2.uid => j1 = j2
  BY <1>6
<1>8. {jo.uid : jo \in jt} = {u \in DOMAIN c : c[u].token}
  BY <1>1, <1>2 DEF FromCache
<1>. QED
  BY <1>4, <1>5, <1>6, <1>7, <1>8

(* flush leaves a file flush wrote, the file as it was, or a torn one.    *)
LEMMA SavedFileFacts ==
  ASSUME NEW c, IsCache(c), NEW s \in SaveOutcomes, file \in Files, FileInv
  PROVE  /\ SavedFile(c, s) \in Files
         /\ SavedFile(c, s).kind = "json" =>
              \/ s = "ok" /\ SavedFile(c, s) = JsonFile(FromCache(c))
              \/ s = "open_fails" /\ SavedFile(c, s) = file
         /\ SaveRv(s) = OK <=> s = "ok"
<1>1. CASE s = "ok"
  BY <1>1, FromCacheFacts DEF SavedFile, Files, JsonFile, SaveRv
<1>2. CASE s = "open_fails"
  BY <1>2 DEF SavedFile, SaveRv, OK, IoError
<1>3. CASE s = "torn"
  BY <1>3 DEF SavedFile, Files, Torn, SaveRv, OK, IoError
<1>. QED
  BY <1>1, <1>2, <1>3, SaveOutcomesAssumption

(* An open into an empty cache brings back one object per JSON object of  *)
(* the file, and re-encoding it gives the JSON object back.               *)
LEMMA PrimeFacts ==
  ASSUME NEW jt \in SUBSET JsonObjects,
         \A jo \in jt : jo.token /\ jo.label # NonUtf8,
         \A j1, j2 \in jt : j1.uid = j2.uid => j1 = j2,
         NEW c, DOMAIN c = {}
  PROVE  LET p == PrimeCache(c, jt) IN
         /\ IsCache(p)
         /\ DOMAIN p = {jo.uid : jo \in jt}
         /\ \A jo \in jt : p[jo.uid] = ToObject(jo)
         /\ \A u \in DOMAIN p : p[u].token
         /\ \A jo \in jt : FromObject(p[jo.uid]) = jo
<1> DEFINE p == PrimeCache(c, jt)
<1>1. DOMAIN p = {jo.uid : jo \in jt}
  BY DEF PrimeCache
<1>2. \A jo \in jt : p[jo.uid] = ToObject(jo)
  BY DEF PrimeCache
<1>3. \A jo \in jt : ToObject(jo) \in Objects /\ ToObject(jo).uid = jo.uid
                     /\ ToObject(jo).token
  BY DEF ToObject, JsonObjects, Objects, StoredLabels
<1>4. \A jo \in jt : FromObject(ToObject(jo)) = jo
  BY DEF FromObject, ToObject, ToJsonString, JsonObjects
<1>5. ASSUME NEW u \in DOMAIN p
      PROVE  /\ u \in Uids
             /\ p[u] \in Objects /\ p[u].uid = u /\ p[u].token
  <2>1. PICK jo \in jt : u = jo.uid
    BY <1>1
  <2>2. jo.uid \in Uids
    BY DEF JsonObjects
  <2>. QED
    BY <1>2, <1>3, <2>1, <2>2
<1>6. IsCache(p)
  BY <1>5 DEF IsCache
<1>7. \A jo \in jt : FromObject(p[jo.uid]) = jo
  BY <1>2, <1>4
<1>. QED
  BY <1>1, <1>2, <1>5, <1>6, <1>7
-----------------------------------------------------------------------------
LEMMA InitIInv == Init => IInv
<1> SUFFICES ASSUME Init PROVE IInv
  OBVIOUS
<1>1. TypeOK
  BY EmptyIsCache DEF Init, TypeOK, Files, JsonFile, RVs, OK
<1>2. FileInv
  BY DEF Init, FileInv, JsonFile, Missing
<1>. QED
  BY <1>1, <1>2 DEF Init, IInv, ClosedEmpty, FileMatchesCache

(* open: a failed load changes nothing but the call and its result; a     *)
(* successful one primes the empty cache from a file flush wrote.          *)
LEMMA OpenIInv == IInv /\ Open => IInv'
<1> SUFFICES ASSUME IInv, Open PROVE IInv'
  OBVIOUS
<1>1. CASE file \in {Missing, Torn}
  <2>1. rv' \in {NotInitialized, ParseError} /\ UNCHANGED <<cache, opened, file, acked>>
    BY <1>1 DEF Open
  <2>. QED
    BY <2>1, <1>1 DEF Open, IInv, TypeOK, RVs, ClosedEmpty, FileInv,
                      FileMatchesCache, NotInitialized, ParseError, OK
<1>2. CASE file \notin {Missing, Torn}
  <2>1. /\ cache' = PrimeCache(cache, file.objects)
        /\ rv' = OK /\ opened' = TRUE /\ call' = "open"
        /\ UNCHANGED <<file, acked>>
    BY <1>2 DEF Open
  <2>2. /\ file.kind = "json"
        /\ file.objects \in SUBSET JsonObjects
        /\ DOMAIN cache = {}
    BY <1>2 DEF IInv, TypeOK, Files, JsonFile, Open, ClosedEmpty
  <2>3. /\ \A jo \in file.objects : jo.token /\ jo.label # NonUtf8
        /\ \A j1, j2 \in file.objects : j1.uid = j2.uid => j1 = j2
    BY <2>2 DEF IInv, FileInv
  <2> DEFINE p == PrimeCache(cache, file.objects)
  <2>4. /\ IsCache(p)
        /\ DOMAIN p = {jo.uid : jo \in file.objects}
        /\ \A u \in DOMAIN p : p[u].token
        /\ \A jo \in file.objects : FromObject(p[jo.uid]) = jo
    BY <2>2, <2>3, PrimeFacts
  <2>5. TypeOK'
    BY <2>1, <2>4 DEF IInv, TypeOK, RVs, OK
  <2>6. FileMatchesCache'
    BY <2>1, <2>2, <2>4 DEF FileMatchesCache
  <2>. QED
    BY <2>1, <2>5, <2>6 DEF IInv, ClosedEmpty, FileInv
<1>. QED
  BY <1>1, <1>2

(* A flush from a cache c that is the new cache: the invariant holds      *)
(* after it whatever std::fs::write did.                                   *)
LEMMA FlushIInv ==
  ASSUME IInv, NEW c, IsCache(c), NEW s \in SaveOutcomes, opened,
         cache' = c, file' = SavedFile(c, s), rv' = SaveRv(s),
         acked' = IF s = "ok" THEN Tokens(c) ELSE acked,
         call' \in {"store", "remove"}, opened' = opened
  PROVE  IInv'
<1>1. /\ SavedFile(c, s) \in Files
      /\ SavedFile(c, s).kind = "json" =>
           \/ s = "ok" /\ SavedFile(c, s) = JsonFile(FromCache(c))
           \/ s = "open_fails" /\ SavedFile(c, s) = file
      /\ SaveRv(s) = OK <=> s = "ok"
  BY SavedFileFacts DEF IInv, TypeOK
<1>2. LET jt == FromCache(c) IN
      /\ jt \in SUBSET JsonObjects
      /\ \A jo \in jt : jo.token /\ jo.label # NonUtf8
      /\ \A j1, j2 \in jt : j1.uid = j2.uid => j1 = j2
      /\ {jo.uid : jo \in jt} = {u \in DOMAIN c : c[u].token}
      /\ \A jo \in jt : jo = FromObject(c[jo.uid])
  BY FromCacheFacts
<1>3. TypeOK'
  <2>1. IsCache(acked')
    BY TokensIsCache DEF IInv, TypeOK
  <2>2. rv' \in RVs
    BY DEF SaveRv, RVs
  <2>. QED
    BY <1>1, <2>1, <2>2 DEF IInv, TypeOK
<1>4. FileInv'
  BY <1>1, <1>2 DEF IInv, FileInv, JsonFile
<1>5. FileMatchesCache'
  <2> SUFFICES ASSUME rv' = OK PROVE FileMatchesCache'
    BY DEF FileMatchesCache
  <2>1. s = "ok" /\ file' = JsonFile(FromCache(c))
    BY <1>1 DEF SavedFile
  <2>. QED
    BY <2>1, <1>2 DEF FileMatchesCache, JsonFile
<1>. QED
  BY <1>3, <1>4, <1>5 DEF IInv, ClosedEmpty

LEMMA StoreIInv == IInv /\ Store => IInv'
<1> SUFFICES ASSUME IInv, Store PROVE IInv'
  OBVIOUS
<1>1. PICK u \in Uids, t \in BOOLEAN, l \in Labels, s \in SaveOutcomes :
        LET o == [uid |-> u, token |-> t, label |-> l] IN
        /\ opened
        /\ cache' = CacheStore(cache, u, o)
        /\ file' = SavedFile(cache', s)
        /\ rv' = SaveRv(s)
        /\ Ack(cache', s)
        /\ call' = "store"
        /\ UNCHANGED opened
  BY DEF Store
<1> DEFINE o == [uid |-> u, token |-> t, label |-> l]
<1>2. o \in Objects /\ o.uid = u
  BY DEF Objects, StoredLabels
<1>3. IsCache(CacheStore(cache, u, o))
  BY <1>2, CacheStoreIsCache DEF IInv, TypeOK
<1>. QED
  BY <1>1, <1>3, FlushIInv DEF Ack

LEMMA RemoveIInv == IInv /\ RemoveByUid => IInv'
<1> SUFFICES ASSUME IInv, RemoveByUid PROVE IInv'
  OBVIOUS
<1>1. PICK u \in Uids, s \in SaveOutcomes :
        /\ opened
        /\ call' = "remove"
        /\ IF u \notin DOMAIN cache
           THEN /\ rv' = NotFound
                /\ UNCHANGED <<cache, file, acked>>
           ELSE /\ cache' = CacheRemove(cache, u)
                /\ file' = SavedFile(cache', s)
                /\ rv' = SaveRv(s)
                /\ Ack(cache', s)
        /\ UNCHANGED opened
  BY DEF RemoveByUid
<1>2. CASE u \notin DOMAIN cache
  BY <1>1, <1>2 DEF IInv, TypeOK, RVs, NotFound, OK, ClosedEmpty, FileInv,
                    FileMatchesCache
<1>3. CASE u \in DOMAIN cache
  <2>1. IsCache(CacheRemove(cache, u))
    BY CacheRemoveIsCache DEF IInv, TypeOK
  <2>. QED
    BY <1>1, <1>3, <2>1, FlushIInv DEF Ack
<1>. QED
  BY <1>2, <1>3

LEMMA ReinitIInv == IInv /\ Reinit => IInv'
  BY DEF IInv, Reinit, TypeOK, RVs, ClosedEmpty, FileInv, FileMatchesCache

LEMMA CrashIInv == IInv /\ Crash => IInv'
<1> SUFFICES ASSUME IInv, Crash PROVE IInv'
  OBVIOUS
<1>1. file' \in {file, Torn}
  BY DEF Crash
<1>2. TypeOK'
  BY <1>1, EmptyIsCache DEF Crash, IInv, TypeOK, Files, RVs, OK
<1>3. FileInv'
  BY <1>1 DEF IInv, FileInv, Torn
<1>. QED
  BY <1>2, <1>3 DEF Crash, IInv, ClosedEmpty, FileMatchesCache

LEMMA StutterIInv == IInv /\ UNCHANGED vars => IInv'
  BY DEF vars, IInv, TypeOK, ClosedEmpty, FileInv, FileMatchesCache, IsCache

THEOREM IInvInvariant == Spec => []IInv
<1>1. IInv /\ [Next]_vars => IInv'
  BY OpenIInv, StoreIInv, RemoveIInv, ReinitIInv, CrashIInv, StutterIInv
  DEF Next
<1>. QED
  BY InitIInv, <1>1, PTL DEF Spec

(* Every state of the token store is well typed: the cache maps each uid  *)
(* to an object carrying that uid, and the file is missing, torn or a     *)
(* JSON token.                                                             *)
THEOREM TypeCorrect == Spec => []TypeOK
  BY IInvInvariant, PTL DEF IInv

(* After an open, store or remove_by_uid that returned OK, the token file *)
(* holds exactly the encoded token objects of the cache (json.rs 176-202), *)
(* whatever writes failed or tore and whatever crashes came before.        *)
THEOREM FileCacheConsistency == Spec => []FileMatchesCache
  BY IInvInvariant, PTL DEF IInv
-----------------------------------------------------------------------------
(* Reopen.  When std::fs::write never leaves a torn file (it completes or *)
(* fails before truncating), an open brings back exactly the             *)
(* acknowledged token objects.  The strengthening says   *)
(* that the file, whenever it exists, is the encoding of the acknowledged *)
(* objects, that these are token objects with valid labels, and that a    *)
(* missing file was never opened.                                          *)
ReopenHyp == "torn" \notin SaveOutcomes

AckedFile ==
  /\ file.kind # "torn"
  /\ file = Missing => ~opened
  /\ file.kind = "json" => file.objects = {FromObject(acked[u]) : u \in DOMAIN acked}
  /\ acked = [u \in DOMAIN acked |-> acked[u]]
  /\ \A u \in DOMAIN acked : acked[u].token /\ acked[u].label \in Labels
  /\ \A u \in DOMAIN cache : cache[u].label \in Labels

RInv == IInv /\ AckedFile /\ ReopenRecoversAcked

LEMMA InitRInv == Init => RInv
<1> SUFFICES ASSUME Init PROVE RInv
  OBVIOUS
<1>1. AckedFile
  BY DEF Init, AckedFile, JsonFile, Missing
<1>. QED
  BY <1>1, InitIInv DEF Init, RInv, ReopenRecoversAcked

(* An open of a file that exists primes the empty cache with the decoded  *)
(* acknowledged objects, which are the acknowledged objects themselves.   *)
LEMMA OpenRInv == ReopenHyp /\ RInv /\ Open => RInv'
<1> SUFFICES ASSUME ReopenHyp, RInv, Open PROVE RInv'
  OBVIOUS
<1>1. IInv'
  BY OpenIInv DEF RInv
<1>2. CASE file = Missing
  <2>1. UNCHANGED <<cache, opened, file, acked>>
    BY <1>2 DEF Open
  <2>. QED
    BY <1>1, <1>2, <2>1 DEF RInv, AckedFile, ReopenRecoversAcked
<1>3. CASE file # Missing
  <2>1. file.kind = "json" /\ file.objects \in SUBSET JsonObjects
    BY <1>3 DEF RInv, IInv, TypeOK, Files, JsonFile, Missing, Torn, AckedFile
  <2>2. file \notin {Missing, Torn}
    BY <2>1 DEF Missing, Torn
  <2>3. /\ cache' = PrimeCache(cache, file.objects)
        /\ rv' = OK /\ call' = "open" /\ opened'
        /\ UNCHANGED <<file, acked>>
    BY <2>2 DEF Open
  <2>4. /\ \A jo \in file.objects : jo.token /\ jo.label # NonUtf8
        /\ \A j1, j2 \in file.objects : j1.uid = j2.uid => j1 = j2
        /\ DOMAIN cache = {}
    BY <2>1, Open DEF RInv, IInv, FileInv, ClosedEmpty, Open
  <2> DEFINE p == PrimeCache(cache, file.objects)
  <2>5. /\ DOMAIN p = {jo.uid : jo \in file.objects}
        /\ \A jo \in file.objects : p[jo.uid] = ToObject(jo)
        /\ \A u \in DOMAIN p : p[u].token
    <3>1. /\ file.objects \in SUBSET JsonObjects
          /\ \A jo \in file.objects : jo.token /\ jo.label # NonUtf8
          /\ \A j1, j2 \in file.objects : j1.uid = j2.uid => j1 = j2
          /\ DOMAIN cache = {}
      BY <2>1, <2>4
    <3>. QED
      BY <3>1, PrimeFacts
  <2>6. file.objects = {FromObject(acked[u]) : u \in DOMAIN acked}
    <3>1. AckedFile
      BY DEF RInv
    <3>. QED
      BY <2>1, <3>1, Zenon DEF AckedFile
  <2>7. ASSUME NEW u \in DOMAIN acked
        PROVE  /\ FromObject(acked[u]) \in file.objects
               /\ FromObject(acked[u]).uid = u
               /\ ToObject(FromObject(acked[u])) = acked[u]
    <3>1. acked[u] \in Objects /\ acked[u].uid = u /\ acked[u].label \in Labels
      BY DEF RInv, IInv, TypeOK, IsCache, AckedFile
    <3>. QED
      BY <2>6, <3>1, Utf8LabelsAssumption DEF Objects, FromObject, ToObject,
                                             ToJsonString
  <2>8. DOMAIN p = DOMAIN acked
    <3>1. {jo.uid : jo \in file.objects}
            = {FromObject(acked[u]).uid : u \in DOMAIN acked}
      BY <2>6
    <3>2. {FromObject(acked[u]).uid : u \in DOMAIN acked} = DOMAIN acked
      BY <2>7
    <3>. QED
      BY <2>5, <3>1, <3>2
  <2>9. \A u \in DOMAIN acked : p[u] = acked[u]
    BY <2>5, <2>7
  <2>10. Tokens(p) = acked
    <3>1. {v \in DOMAIN p : p[v].token} = DOMAIN acked
      BY <2>5, <2>8
    <3>2. Tokens(p) = [u \in DOMAIN acked |-> p[u]]
      BY <3>1 DEF Tokens
    <3>3. acked = [u \in DOMAIN acked |-> acked[u]]
      BY DEF RInv, AckedFile
    <3>. QED
      BY <2>9, <3>2, <3>3
  <2>11. AckedFile'
    <3>1. file # Missing /\ file.kind # "torn"
      BY <2>1 DEF Missing
    <3>2. \A u \in DOMAIN cache' : cache'[u].label \in Labels
      BY <2>3, <2>8, <2>9 DEF RInv, AckedFile
    <3>. QED
      BY <2>3, <3>1, <3>2 DEF RInv, AckedFile
  <2>. QED
    BY <1>1, <2>3, <2>10, <2>11 DEF RInv, ReopenRecoversAcked
<1>. QED
  BY <1>2, <1>3

(* A flush without a torn outcome: the file is rewritten from the new     *)
(* cache and the acknowledged objects move with it, or nothing on disk    *)
(* changes and neither do they.                                           *)
LEMMA FlushRInv ==
  ASSUME ReopenHyp, RInv, NEW c, IsCache(c),
         \A u \in DOMAIN c : c[u].label \in Labels,
         NEW s \in SaveOutcomes, opened,
         cache' = c, file' = SavedFile(c, s), rv' = SaveRv(s),
         acked' = IF s = "ok" THEN Tokens(c) ELSE acked,
         call' \in {"store", "remove"}, opened' = opened
  PROVE  RInv'
<1>1. IInv'
  BY FlushIInv DEF RInv
<1>2. ReopenRecoversAcked'
  BY DEF ReopenRecoversAcked
<1>3. CASE s = "ok"
  <2>1. file' = JsonFile(FromCache(c)) /\ acked' = Tokens(c)
    BY <1>3 DEF SavedFile
  <2>2. FromCache(c) = {FromObject(Tokens(c)[u]) : u \in DOMAIN Tokens(c)}
    BY DEF FromCache, Tokens
  <2>3. /\ Tokens(c) = [u \in DOMAIN Tokens(c) |-> Tokens(c)[u]]
        /\ \A u \in DOMAIN Tokens(c) : Tokens(c)[u].token
                                     /\ Tokens(c)[u].label \in Labels
    BY DEF Tokens
  <2>4. file' # Missing /\ file'.kind = "json"
    BY <2>1 DEF JsonFile, Missing
  <2>. QED
    BY <1>1, <1>2, <2>1, <2>2, <2>3, <2>4 DEF RInv, AckedFile, JsonFile
<1>4. CASE s = "open_fails"
  <2>1. file' = file /\ acked' = acked
    BY <1>4 DEF SavedFile
  <2>. QED
    BY <1>1, <1>2, <2>1 DEF RInv, AckedFile
<1>. QED
  BY <1>3, <1>4, SaveOutcomesAssumption DEF ReopenHyp

LEMMA StoreRInv == ReopenHyp /\ RInv /\ Store => RInv'
<1> SUFFICES ASSUME ReopenHyp, RInv, Store PROVE RInv'
  OBVIOUS
<1>1. PICK u \in Uids, t \in BOOLEAN, l \in Labels, s \in SaveOutcomes :
        LET o == [uid |-> u, token |-> t, label |-> l] IN
        /\ opened
        /\ cache' = CacheStore(cache, u, o)
        /\ file' = SavedFile(cache', s)
        /\ rv' = SaveRv(s)
        /\ Ack(cache', s)
        /\ call' = "store"
        /\ UNCHANGED opened
  BY DEF Store
<1> DEFINE o == [uid |-> u, token |-> t, label |-> l]
<1>2. o \in Objects /\ o.uid = u
  BY DEF Objects, StoredLabels
<1>3. IsCache(CacheStore(cache, u, o))
  BY <1>2, CacheStoreIsCache DEF RInv, IInv, TypeOK
<1>4. \A v \in DOMAIN CacheStore(cache, u, o) : CacheStore(cache, u, o)[v].label \in Labels
  BY DEF CacheStore, RInv, AckedFile
<1>. QED
  BY <1>1, <1>3, <1>4, FlushRInv DEF Ack

LEMMA RemoveRInv == ReopenHyp /\ RInv /\ RemoveByUid => RInv'
<1> SUFFICES ASSUME ReopenHyp, RInv, RemoveByUid PROVE RInv'
  OBVIOUS
<1>1. IInv'
  BY RemoveIInv DEF RInv
<1>2. PICK u \in Uids, s \in SaveOutcomes :
        /\ opened
        /\ call' = "remove"
        /\ IF u \notin DOMAIN cache
           THEN /\ rv' = NotFound
                /\ UNCHANGED <<cache, file, acked>>
           ELSE /\ cache' = CacheRemove(cache, u)
                /\ file' = SavedFile(cache', s)
                /\ rv' = SaveRv(s)
                /\ Ack(cache', s)
        /\ UNCHANGED opened
  BY DEF RemoveByUid
<1>3. CASE u \notin DOMAIN cache
  BY <1>1, <1>2, <1>3 DEF RInv, AckedFile, ReopenRecoversAcked
<1>4. CASE u \in DOMAIN cache
  <2>1. IsCache(CacheRemove(cache, u))
    BY CacheRemoveIsCache DEF RInv, IInv, TypeOK
  <2>2. \A v \in DOMAIN CacheRemove(cache, u) : CacheRemove(cache, u)[v].label \in Labels
    BY DEF CacheRemove, RInv, AckedFile
  <2>. QED
    BY <1>2, <1>4, <2>1, <2>2, FlushRInv DEF Ack
<1>. QED
  BY <1>3, <1>4

LEMMA ReinitRInv == RInv /\ Reinit => RInv'
  BY ReinitIInv DEF RInv, Reinit, AckedFile, ReopenRecoversAcked

(* A crash leaves the file as it was, as no write can tear it.            *)
LEMMA CrashRInv == ReopenHyp /\ RInv /\ Crash => RInv'
<1> SUFFICES ASSUME ReopenHyp, RInv, Crash PROVE RInv'
  OBVIOUS
<1>1. IInv'
  BY CrashIInv DEF RInv
<1>2. file' = file /\ acked' = acked /\ ~opened' /\ DOMAIN cache' = {}
  BY DEF Crash, ReopenHyp
<1>. QED
  BY <1>1, <1>2 DEF RInv, AckedFile, ReopenRecoversAcked, Crash

LEMMA StutterRInv == RInv /\ UNCHANGED vars => RInv'
  BY StutterIInv DEF vars, RInv, AckedFile, ReopenRecoversAcked

(* When std::fs::write never leaves a torn file, an open of an           *)
(* initialised token after any sequence of stores,                        *)
(* removes, failed writes and crashes succeeds and brings back exactly    *)
(* the token objects of the last store or remove_by_uid that returned OK  *)
(* (json.rs 76-140, 142-166).  The run json_torn_file shows that the      *)
(* hypothesis cannot be dropped.                                           *)
THEOREM ReopenSafety ==
  ASSUME ReopenHyp PROVE Spec => []ReopenRecoversAcked
<1>1. Init => RInv
  BY InitRInv
<1>2. RInv /\ [Next]_vars => RInv'
  BY OpenRInv, StoreRInv, RemoveRInv, ReinitRInv, CrashRInv, StutterRInv
  DEF Next
<1>. QED
  BY <1>1, <1>2, PTL DEF Spec, RInv
=============================================================================
