--------------------------- MODULE NestedAES_proofs ---------------------------
(***************************************************************************)
(* Proofs about the nested ciphertext, for every set of workers, message   *)
(* length and k_t: first its lengths (PadBudget), then its contents.       *)
(***************************************************************************)
EXTENDS NestedAES, WellFoundedInduction, TLAPS

\* A token is of an earlier state of the record, and obeys the same law.
TokenOK(t) ==
    t # NoToken => /\ t.length = Length + t.layers * LayerSize
                   /\ t.layers < MaxUpdates
Inv ==
    /\ TypeOK
    /\ intact
    /\ payload_length = Length + layers * LayerSize
    /\ layers <= MaxUpdates
    /\ \A w \in Workers : TokenOK(token[w])

\* With fewer updates than k_t, Inv leaves room for one more layer.
LEMMA RoomForOneMore ==
    ASSUME MaxUpdates < k_t, Inv
    PROVE  /\ HeaderSize + payload_length <= data_len
           /\ \A w \in Workers :
                token[w] # NoToken => token[w].length <= ctx_length
<1>1. HeaderSize + payload_length <= data_len
  BY LengthAssumption
     DEF Inv, TypeOK, HeaderSize, HistorySize, LayerSize, BufferLength, EncryptReturns
<1>2. ASSUME NEW w \in Workers, token[w] # NoToken
      PROVE  token[w].length <= ctx_length
  <2>1. token[w] \in [length : Nat, layers : Nat]
    BY <1>2 DEF Inv, TypeOK
  <2>2. /\ token[w].length = Length + token[w].layers * LayerSize
        /\ token[w].layers < MaxUpdates
    BY <1>2 DEF Inv, TokenOK
  <2>3. QED
    BY <2>1, <2>2, LengthAssumption
       DEF Inv, TypeOK, HeaderSize, HistorySize, LayerSize, BufferLength,
           EncryptReturns, ctx_length
<1>3. QED BY <1>1, <1>2

\* The invariant holds of what populate stored and is preserved by uploads,
\* tokens and re-encryptions.
LEMMA InvInductive ==
    ASSUME MaxUpdates < k_t
    PROVE  /\ Init => Inv
           /\ Inv /\ [Next]_vars => Inv'
<1>1. Init => Inv
  BY LengthAssumption
     DEF Init, Inv, TypeOK, TokenOK, HeaderSize, HistorySize, LayerSize, EncryptReturns
<1>2. ASSUME Inv, [Next]_vars PROVE Inv'
  <2>1. CASE Upload
    BY <1>2, <2>1, LengthAssumption
       DEF Upload, Inv, TypeOK, TokenOK, HeaderSize, HistorySize, LayerSize,
           BufferLength, EncryptReturns
  <2>2. ASSUME NEW w \in Workers, AE_ReKeyGen(w) PROVE Inv'
    <3> DEFINE t == [length |-> payload_length, layers |-> layers]
    <3>1. t \in [length : Nat, layers : Nat] /\ TokenOK(t)
      BY <1>2, <2>2 DEF AE_ReKeyGen, Inv, TypeOK, TokenOK
    <3>2. /\ token' = [token EXCEPT ![w] = t]
          /\ UNCHANGED <<data_len, payload_length, layers, intact>>
      BY <2>2 DEF AE_ReKeyGen
    <3>3. token' \in [Workers -> {NoToken} \cup [length : Nat, layers : Nat]]
      BY <1>2, <3>1, <3>2 DEF Inv, TypeOK
    <3>4. ASSUME NEW v \in Workers PROVE TokenOK(token'[v])
      BY <1>2, <3>1, <3>2 DEF Inv, TypeOK
    <3>5. TypeOK'
      BY <1>2, <3>2, <3>3 DEF Inv, TypeOK, BufferLength, EncryptReturns
    <3>6. QED BY <1>2, <3>2, <3>4, <3>5 DEF Inv, TokenOK
  <2>3. ASSUME NEW w \in Workers, AE_ReEncrypt(w) PROVE Inv'
    <3>1. ~(token[w].length > ctx_length)
      <4>1. token[w].length <= ctx_length
        BY <1>2, <2>3, RoomForOneMore DEF AE_ReEncrypt
      <4>2. token[w].length \in Nat /\ ctx_length \in Int
        BY <1>2, <2>3, LengthAssumption
           DEF AE_ReEncrypt, Inv, TypeOK, ctx_length, HeaderSize, HistorySize,
               LayerSize, BufferLength, EncryptReturns
      <4>3. QED BY <4>1, <4>2
    <3>2. token[w].length \in Nat /\ token[w].layers \in Nat
      BY <1>2, <2>3 DEF AE_ReEncrypt, Inv, TypeOK
    <3>3. /\ payload_length' = token[w].length + LayerSize
          /\ layers' = token[w].layers + 1
          /\ intact' = intact /\ data_len' = data_len
          /\ token' = [token EXCEPT ![w] = NoToken]
      BY <2>3, <3>1 DEF AE_ReEncrypt
    <3>4. /\ token[w].length = Length + token[w].layers * LayerSize
          /\ token[w].layers < MaxUpdates
      BY <1>2, <2>3 DEF AE_ReEncrypt, Inv, TokenOK
    <3>5. /\ payload_length' \in Nat /\ layers' \in Nat /\ layers' <= MaxUpdates
          /\ payload_length' = Length + layers' * LayerSize
      BY <3>2, <3>3, <3>4, LengthAssumption DEF HeaderSize, HistorySize, LayerSize
    <3>6. /\ token' \in [Workers -> {NoToken} \cup [length : Nat, layers : Nat]]
          /\ \A v \in Workers : TokenOK(token'[v])
      BY <1>2, <3>3 DEF Inv, TypeOK, TokenOK
    <3>7. QED
      BY <1>2, <3>3, <3>5, <3>6 DEF Inv, TypeOK, TokenOK, BufferLength, EncryptReturns
  <2>4. CASE UNCHANGED vars
    BY <1>2, <2>4 DEF vars, Inv, TypeOK, TokenOK, BufferLength, EncryptReturns
  <2>5. QED BY <1>2, <2>1, <2>2, <2>3, <2>4 DEF Next
<1>3. QED BY <1>1, <1>2

\* As long as a record is re-encrypted fewer than k_t times between uploads,
\* the payload never outgrows the stored value (AE_ReEncrypt's length check
\* at AE_Nested_AES.c:197), for every message length and with stale tokens.
THEOREM PayloadAlwaysFits ==
    ASSUME MaxUpdates < k_t
    PROVE  Spec => []PayloadFits
<1>1. Inv => PayloadFits
  BY RoomForOneMore DEF PayloadFits, Inv
<1>2. QED BY <1>1, InvInductive, PTL DEF Spec

\* Under the same bound the header's length is the number of layers.
THEOREM LengthAlwaysCountsLayers ==
    ASSUME MaxUpdates < k_t
    PROVE  Spec => []LengthCountsLayers
<1>1. Inv => LengthCountsLayers
  BY DEF Inv, LengthCountsLayers
<1>2. QED BY <1>1, InvInductive, PTL DEF Spec

\* Under the same bound every variable keeps its type: the two lengths that a
\* stored value can have, and a token per worker.
THEOREM LengthsTypeCorrect ==
    ASSUME MaxUpdates < k_t
    PROVE  Spec => []TypeOK
<1>1. Inv => TypeOK
  BY DEF Inv
<1>2. QED BY <1>1, InvInductive, PTL DEF Spec
-----------------------------------------------------------------------------
(***************************************************************************)
(* The contents.  Decryption is a recursion over the layers; what is known *)
(* of it is the sequence of its calls.                                     *)
(***************************************************************************)
\* The least element of a set of naturals: < is well-founded on Nat.
LEMMA LeastElement ==
    ASSUME NEW T, T \subseteq Nat, T # {}
    PROVE  \E m \in T : \A k \in T : ~(k < m)
<1> DEFINE R == {ss \in Nat \X Nat : ss[1] < ss[2]}
<1>1. IsWellFoundedOn(OpToRel(<, Nat), Nat)
  BY NatLessThanWellFounded
<1>2. OpToRel(<, Nat) = R
  BY DEF OpToRel
<1>3. IsWellFoundedOn(R, Nat)
  BY <1>1, <1>2
<1>4. \A k \in Nat, m \in Nat : k < m => <<k, m>> \in R
  OBVIOUS
<1> HIDE DEF R
<1>5. PICK m \in T : \A k \in T : ~ (<<k, m>> \in R)
  BY <1>3, WFMin
<1>6. \A k \in T : ~(k < m)
  BY <1>4, <1>5
<1> QED
  BY <1>5, <1>6

\* decrypt_last_step's calls, when q is where each of them leads: by induction
\* on the call, in the form that there is no first one at which they differ.
LEMMA CallsFollow ==
    ASSUME NEW q, NEW d \in Nat, \A n \in Nat : q[n + 1] = Peel(q[n])
    PROVE  \A n \in 0..d : Calls(q[0], d)[n] = {q[n]}
<1> DEFINE Next1(f) == [n \in 0..d |-> IF n = 0 THEN {q[0]}
                                      ELSE {Peel(s) : s \in f[n - 1]}]
           g == [n \in 0..d |-> {q[n]}]
           f == Calls(q[0], d)
<1>1. f = CHOOSE h : h = Next1(h)
  BY DEF Calls
<1>2. g = Next1(g)
  <2>1. ASSUME NEW n \in 0..d PROVE g[n] = Next1(g)[n]
    <3>1. CASE n = 0
      BY <3>1
    <3>2. CASE n # 0
      <4>1. n - 1 \in 0..d /\ n - 1 \in Nat
        BY <3>2
      <4>2. g[n - 1] = {q[n - 1]}
        BY <4>1
      <4>3. q[n] = Peel(q[n - 1])
        <5>1. q[(n - 1) + 1] = Peel(q[n - 1])
          BY <4>1
        <5> QED
          BY <5>1, <4>1
      <4>4. Next1(g)[n] = {Peel(s) : s \in {q[n - 1]}}
        BY <3>2, <4>2
      <4> QED
        BY <4>3, <4>4
    <3> QED
      BY <3>1, <3>2
  <2> QED
    BY <2>1
<1>3. f = Next1(f)
  BY <1>1, <1>2
<1> HIDE DEF f
<1> DEFINE T == {n \in 0..d : f[n] # {q[n]}}
<1>4. ASSUME T # {} PROVE FALSE
  <2>0. T \subseteq Nat
    OBVIOUS
  <2>1. PICK m \in T : \A k \in T : ~(k < m)
    <3> HIDE DEF T
    <3> QED
      BY <1>4, <2>0, LeastElement
  <2>2. m \in 0..d /\ f[m] # {q[m]}
    BY <2>1
  <2>3. f[0] = {q[0]}
    BY <1>3
  <2>4. m # 0
    BY <2>2, <2>3
  <2>5. m - 1 \in 0..d /\ m - 1 \in Nat /\ m - 1 < m
    BY <2>2, <2>4
  <2>6. f[m - 1] = {q[m - 1]}
    BY <2>1, <2>5
  <2>7. f[m] = {Peel(s) : s \in f[m - 1]}
    BY <1>3, <2>2, <2>4
  <2>8. q[(m - 1) + 1] = Peel(q[m - 1])
    BY <2>5
  <2>9. q[m] = Peel(q[m - 1])
    BY <2>8, <2>2
  <2> QED
    BY <2>2, <2>6, <2>7, <2>9
<1> QED
  BY <1>4 DEF f
-----------------------------------------------------------------------------
\* The history key of a header of generation g over l layers.
HistoryOf(g, l) == IF l = 0 THEN ZeroKey ELSE HistoryKey(g)

\* The stored values are all of the record's generation, and pad and payload
\* fill the stored length.
Sealed ==
    LET g == record.header
    IN  /\ fresh \in Nat /\ g \in Nat /\ g <= fresh
        /\ record = Written(g, record.data.msg)
        /\ dek = Dek(g)
        /\ ciphertext_hat =
             gcm_encrypt(Meta(Seed(g), PayloadKey(g), HistoryOf(g, layers), payload_length),
                         MetaSize, Dek(g))
        /\ pad = prg_aes_ctr(Seed(g), ctx_length - payload_length)
        /\ payload.key = PayloadKey(g)
        /\ payload.length = payload_length

\* A token of worker w leads from a generation that the record had to one
\* that it has not had.  If the record still has the old one, the token is of
\* the layers that are there.
DeltaOK(w) ==
    LET d == delta[w]
        o == d.abstract.old
        n == d.abstract.new
    IN  /\ o \in Nat /\ n \in Nat
        /\ o <= fresh /\ n <= fresh /\ o # n /\ n # record.header
        /\ o = record.header => token[w].layers = layers
        /\ d = [ct_hat |-> gcm_encrypt(
                             Meta(Seed(n), PayloadKey(n), HistoryKey(n),
                                  token[w].length + LayerSize),
                             MetaSize, Dek(n)),
                ct_hat_history |-> gcm_encrypt_2(PayloadKey(o),
                                                 HistoryOf(o, token[w].layers),
                                                 HistoryKey(n)),
                length |-> token[w].length,
                key_ae |-> PayloadKey(n), prg_seed |-> Seed(n),
                dek |-> Dek(n), abstract |-> ReKeyGen(o, n)]
Tokens ==
    /\ delta = [w \in Workers |-> delta[w]]
    /\ \A w \in Workers : token[w] # NoToken => DeltaOK(w)
    /\ \A v, w \in Workers :
          v # w /\ token[v] # NoToken /\ token[w] # NoToken
          => /\ delta[v].abstract.new # delta[w].abstract.new
             /\ delta[v].abstract.old # delta[w].abstract.new

\* q is what the calls of decrypt_last_step lead to, from what is stored; from
\* the call after the last layer on it is what the protocol models say.
Chain(q) ==
    /\ q[0] = FirstCall(payload, ciphertext_hat.of)
    /\ \A n \in Nat : q[n + 1] = Peel(q[n])
    /\ \A n \in Nat : n >= layers => Innermost(q[n]) = record.data.msg

NInv == Inv /\ Sealed /\ Tokens /\ \E q : Chain(q)

\* The protocol models open a record whose parts are of one generation.
LEMMA PlaintextIsMessage ==
    ASSUME NEW rec, NEW g, NEW m, rec = Written(g, m)
    PROVE  Plaintext(rec) = rec.data.msg
<1>1. Opens(rec)
  BY DEF Opens, Written, Encrypted
<1> QED
  BY <1>1 DEF Plaintext

\* Under the invariant AE_Decrypt gets through to the end of the chain: the
\* length in the header stands for at least as many calls as there are layers.
LEMMA DecryptsToEnd ==
    ASSUME MaxUpdates < k_t, NInv
    PROVE  AE_Decrypt = record.data.msg /\ Plaintext(record) = record.data.msg
<1> DEFINE g == record.header
           meta == ciphertext_hat.of
           d == payload_length \div LayerSize
<1>1. PICK q : Chain(q)
  BY DEF NInv
<1>2. /\ payload_length = Length + layers * LayerSize
      /\ payload_length \in Nat /\ layers \in Nat
  BY DEF NInv, Inv, TypeOK
<1>3. d \in Nat /\ d >= layers
  BY <1>2, LengthAssumption DEF LayerSize, HeaderSize, HistorySize
<1>4. payload_length <= ctx_length
  <2>1. HeaderSize + payload_length <= data_len
    BY RoomForOneMore DEF NInv
  <2>2. data_len \in Int
    BY LengthAssumption
       DEF NInv, Inv, TypeOK, BufferLength, EncryptReturns, HeaderSize, HistorySize,
           LayerSize
  <2> QED
    BY <2>1, <2>2, <1>2 DEF ctx_length, HeaderSize
<1>5. /\ meta = Meta(Seed(g), PayloadKey(g), HistoryOf(g, layers), payload_length)
      /\ Verifies(ciphertext_hat, MetaSize, dek)
  BY DEF NInv, Sealed, gcm_encrypt, Verifies
<1>6. meta.ct_payload_length = payload_length /\ meta.prg_seed = Seed(g)
  BY <1>5 DEF Meta
<1>7. pad = prg_aes_ctr(meta.prg_seed, ctx_length - meta.ct_payload_length)
  BY <1>6 DEF NInv, Sealed
<1>8. Take(payload, meta.ct_payload_length) = payload
  BY <1>6 DEF NInv, Sealed, Take
<1>9. AE_Decrypt = decrypt_last_step(payload, meta)
  BY <1>4, <1>5, <1>6, <1>7, <1>8 DEF AE_Decrypt
<1> HIDE DEF d
<1>10. Calls(FirstCall(payload, meta), d)[d] = {q[d]}
  <2>1. d \in 0..d
    BY <1>3
  <2>2. \A n \in Nat : q[n + 1] = Peel(q[n])
    BY <1>1 DEF Chain
  <2>3. \A n \in 0..d : Calls(q[0], d)[n] = {q[n]}
    BY <1>3, <2>2, CallsFollow
  <2>4. q[0] = FirstCall(payload, meta)
    BY <1>1 DEF Chain
  <2> QED
    BY <2>1, <2>3, <2>4
<1>11. decrypt_last_step(payload, meta) = Innermost(q[d])
  BY <1>6, <1>10 DEF decrypt_last_step, d
<1>12. Innermost(q[d]) = record.data.msg
  BY <1>1, <1>3 DEF Chain
<1>13. Plaintext(record) = record.data.msg
  BY PlaintextIsMessage DEF NInv, Sealed
<1> QED
  BY <1>9, <1>11, <1>12, <1>13

\* Calls that make nothing more of what they get: no history key is left, or
\* the payload does not open.
LEMMA Stuck ==
    ASSUME NEW s, s.history_key = ZeroKey \/ ~Verifies(s.payload, s.length, s.payload_key)
    PROVE  Peel(s) = s
BY DEF Peel

\* What AE_Encrypt wrote: the first call is the last.
LEMMA EncryptedChain ==
    ASSUME NEW p, NEW meta, NEW m, meta.history_key = ZeroKey,
           p.key = meta.payload_key, p.length = meta.ct_payload_length, p.of = m
    PROVE  LET q == [n \in Nat |-> FirstCall(p, meta)]
           IN  /\ q[0] = FirstCall(p, meta)
               /\ \A n \in Nat : q[n + 1] = Peel(q[n])
               /\ \A n \in Nat : Innermost(q[n]) = m
<1> DEFINE s == FirstCall(p, meta)
<1>1. /\ s.history_key = ZeroKey /\ s.payload = p
      /\ s.length = meta.ct_payload_length /\ s.payload_key = meta.payload_key
  BY DEF FirstCall
<1>2. Innermost(s) = m
  BY <1>1 DEF Innermost, Verifies
<1>3. Peel(s) = s
  BY <1>1, Stuck
<1> QED
  BY <1>2, <1>3

\* A layer: the first call opens it and goes on with the keys of its history.
LEMMA LayerPeels ==
    ASSUME NEW inner, NEW key, NEW history, NEW hkey, NEW k, NEW h, NEW len,
           hkey # ZeroKey, len = inner.length + LayerSize, inner.length \in Int,
           history = gcm_encrypt_2(k, h, hkey)
    PROVE  Peel([payload |-> gcm_encrypt_4(inner, history, key), payload_key |-> key,
                 history_key |-> hkey, length |-> len])
           = [payload |-> inner, payload_key |-> k, history_key |-> h,
              length |-> inner.length]
<1> DEFINE s == [payload |-> gcm_encrypt_4(inner, history, key), payload_key |-> key,
                 history_key |-> hkey, length |-> len]
           layer == s.payload.of
<1>1. /\ s.payload.key = key /\ s.payload.length = len
      /\ layer.payload = inner /\ layer.history = history
  BY DEF gcm_encrypt_4, gcm_encrypt
<1>2. /\ history.key = hkey /\ history.length = HistorySize
      /\ history.of.payload_key = k /\ history.of.history_key = h
  BY DEF gcm_encrypt_2, gcm_encrypt
<1>3. Verifies(s.payload, s.length, s.payload_key)
  BY <1>1 DEF Verifies
<1>4. Verifies(layer.history, HistorySize, s.history_key)
  BY <1>1, <1>2 DEF Verifies
<1>5. Peel(s) = [payload |-> layer.payload, payload_key |-> layer.history.of.payload_key,
                 history_key |-> layer.history.of.history_key,
                 length |-> s.length - LayerSize]
  BY <1>3, <1>4 DEF Peel
<1>6. s.length - LayerSize = inner.length
  BY DEF LayerSize, HeaderSize, HistorySize
<1> QED
  BY <1>1, <1>2, <1>5, <1>6

\* Keys drawn for different purposes or generations differ.
LEMMA KeysDiffer ==
    /\ \A g : HistoryKey(g) # ZeroKey /\ PayloadKey(g) # ZeroKey
    /\ \A g, h : PayloadKey(g) = PayloadKey(h) => g = h
BY DEF HistoryKey, PayloadKey, ZeroKey

\* Populate's record satisfies the invariant.
LEMMA NInvInit ==
    ASSUME MaxUpdates < k_t, NInit
    PROVE  NInv
<1>1. PICK m \in Messages : /\ payload = gcm_encrypt(m, Length, PayloadKey(1))
                            /\ record = Written(1, m)
  BY DEF NInit
<1>2. Inv
  BY InvInductive DEF NInit
<1>3. /\ payload_length = Length /\ layers = 0
      /\ \A w \in Workers : token[w] = NoToken
  BY DEF NInit, Init
<1>4. record.header = 1 /\ record.data.msg = m
  BY <1>1 DEF Written, Encrypted
<1>5. Sealed
  BY <1>1, <1>3, <1>4 DEF NInit, Sealed, HistoryOf, gcm_encrypt
<1>6. Tokens
  BY <1>3 DEF NInit, Tokens
<1>7. \E q : Chain(q)
  <2> DEFINE meta == ciphertext_hat.of
             q == [n \in Nat |-> FirstCall(payload, meta)]
  <2>1. meta.history_key = ZeroKey /\ meta.payload_key = PayloadKey(1)
        /\ meta.ct_payload_length = Length
    BY DEF NInit, gcm_encrypt, Meta
  <2>2. payload.key = PayloadKey(1) /\ payload.length = Length /\ payload.of = m
    BY <1>1 DEF gcm_encrypt
  <2>3. /\ q[0] = FirstCall(payload, meta)
        /\ \A n \in Nat : q[n + 1] = Peel(q[n])
        /\ \A n \in Nat : Innermost(q[n]) = m
    <3> HIDE DEF meta
    <3> QED
      BY <2>1, <2>2, EncryptedChain
  <2>4. Chain(q)
    <3> HIDE DEF q
    <3> QED
      BY <2>3, <1>4 DEF Chain
  <2> QED
    BY <2>4
<1> QED
  BY <1>2, <1>5, <1>6, <1>7 DEF NInv

\* An upload starts a new record, of a generation that no token knows.
LEMMA NInvUpload ==
    ASSUME MaxUpdates < k_t, NInv, NUpload
    PROVE  NInv'
<1>1. PICK m \in Messages : /\ Encrypt(fresh', m, k_t * LayerSize)
                            /\ record' = Written(fresh', m)
  BY DEF NUpload
<1>2. Inv'
  BY InvInductive DEF NUpload, NInv, Next
<1>3. /\ data_len' = BufferLength /\ payload_length' = Length /\ layers' = 0
      /\ token' = token /\ fresh' = fresh + 1 /\ delta' = delta /\ fresh \in Nat
  BY DEF NUpload, Upload, NInv, Sealed
<1>4. record'.header = fresh' /\ record'.data.msg = m
  BY <1>1 DEF Written, Encrypted
<1>5. /\ payload' = gcm_encrypt(m, Length, PayloadKey(fresh'))
      /\ pad' = prg_aes_ctr(Seed(fresh'), k_t * LayerSize)
      /\ dek' = Dek(fresh')
      /\ ciphertext_hat' =
           gcm_encrypt(Meta(Seed(fresh'), PayloadKey(fresh'), ZeroKey, Length),
                       MetaSize, Dek(fresh'))
  BY <1>1 DEF Encrypt
<1>6. ctx_length' - payload_length' = k_t * LayerSize
  BY <1>3, LengthAssumption
     DEF ctx_length, BufferLength, HeaderSize, HistorySize, LayerSize
<1>7. Sealed'
  <2>1. fresh' \in Nat /\ fresh' <= fresh'
    BY <1>3
  <2>2. payload'.key = PayloadKey(fresh') /\ payload'.length = Length
    BY <1>5 DEF gcm_encrypt
  <2> QED
    BY <1>1, <1>3, <1>4, <1>5, <1>6, <2>1, <2>2 DEF Sealed, HistoryOf
<1>8. Tokens'
  <2>1. ASSUME NEW w \in Workers, token'[w] # NoToken PROVE DeltaOK(w)'
    <3>1. DeltaOK(w) /\ token'[w] = token[w] /\ delta'[w] = delta[w]
      BY <1>3, <2>1 DEF NInv, Tokens
    <3> DEFINE o == delta[w].abstract.old
               n == delta[w].abstract.new
    <3>2. o \in Nat /\ n \in Nat /\ o <= fresh /\ n <= fresh
      BY <3>1 DEF DeltaOK
    <3>3. o <= fresh' /\ n <= fresh' /\ o # fresh' /\ n # fresh'
      BY <3>2, <1>3
    <3> QED
      BY <3>1, <3>2, <3>3, <1>4 DEF DeltaOK
  <2> QED
    BY <2>1, <1>3 DEF NInv, Tokens
<1>9. (\E q : Chain(q))'
  <2> DEFINE p == payload'
             meta == ciphertext_hat'.of
             q == [n \in Nat |-> FirstCall(p, meta)]
  <2>1. meta.history_key = ZeroKey /\ meta.payload_key = PayloadKey(fresh')
        /\ meta.ct_payload_length = Length
    BY <1>5 DEF gcm_encrypt, Meta
  <2>2. p.key = PayloadKey(fresh') /\ p.length = Length /\ p.of = m
    BY <1>5 DEF gcm_encrypt
  <2>3. /\ q[0] = FirstCall(p, meta)
        /\ \A n \in Nat : q[n + 1] = Peel(q[n])
        /\ \A n \in Nat : Innermost(q[n]) = m
    <3> HIDE DEF p, meta
    <3> QED
      BY <2>1, <2>2, EncryptedChain
  <2>4. \E r : /\ r[0] = FirstCall(payload', ciphertext_hat'.of)
               /\ \A n \in Nat : r[n + 1] = Peel(r[n])
               /\ \A n \in Nat : n >= layers' => Innermost(r[n]) = record'.data.msg
    <3> HIDE DEF q
    <3> QED
      BY <2>3, <1>4
  <2> QED
    BY <2>4 DEF Chain
<1> QED
  BY <1>2, <1>7, <1>8, <1>9 DEF NInv

\* A token is made of what is stored and leaves it alone.
LEMMA NInvReKeyGen ==
    ASSUME MaxUpdates < k_t, NInv, NEW w \in Workers, NReKeyGen(w)
    PROVE  NInv'
<1> DEFINE g == record.header
           n == fresh + 1
           d == delta'[w]
<1>1. Inv'
  BY InvInductive DEF NReKeyGen, NInv, Next
<1>2. /\ token[w] = NoToken
      /\ token' = [token EXCEPT ![w] = [length |-> payload_length, layers |-> layers]]
      /\ UNCHANGED <<data_len, payload_length, layers, contents, record>>
      /\ fresh' = n
  BY DEF NReKeyGen, AE_ReKeyGen
<1>3. token'[w] = [length |-> payload_length, layers |-> layers]
  BY <1>2 DEF NInv, Inv, TypeOK
<1>4. \A v \in Workers : v # w => token'[v] = token[v] /\ delta'[v] = delta[v]
  BY <1>2 DEF NReKeyGen, NInv, Inv, TypeOK
<1>5. fresh \in Nat /\ g \in Nat /\ g <= fresh /\ n \in Nat
  BY DEF NInv, Sealed
<1>6. Sealed'
  BY <1>2, <1>5 DEF NInv, Sealed, contents, ctx_length
<1>7. ciphertext_hat.of = Meta(Seed(g), PayloadKey(g), HistoryOf(g, layers), payload_length)
  BY DEF NInv, Sealed, gcm_encrypt
<1>8. d = [ct_hat |-> gcm_encrypt(Meta(Seed(n), PayloadKey(n), HistoryKey(n),
                                       payload_length + LayerSize), MetaSize, Dek(n)),
           ct_hat_history |-> gcm_encrypt_2(PayloadKey(g), HistoryOf(g, layers),
                                            HistoryKey(n)),
           length |-> payload_length,
           key_ae |-> PayloadKey(n), prg_seed |-> Seed(n),
           dek |-> Dek(n), abstract |-> ReKeyGen(g, n)]
  BY <1>7 DEF NReKeyGen, NInv, Tokens, Meta
<1>9. d.abstract.old = g /\ d.abstract.new = n
  BY <1>8 DEF ReKeyGen
<1> HIDE DEF d
<1>10. ASSUME NEW v \in Workers, token'[v] # NoToken PROVE DeltaOK(v)'
  <2>1. CASE v = w
    <3>1. /\ d.abstract.old \in Nat /\ d.abstract.new \in Nat
          /\ d.abstract.old <= fresh' /\ d.abstract.new <= fresh'
          /\ d.abstract.old # d.abstract.new /\ d.abstract.new # record'.header
      BY <1>2, <1>5, <1>9
    <3>2. token'[w].layers = layers' /\ token'[w].length = payload_length
      BY <1>2, <1>3
    <3> QED
      BY <2>1, <3>1, <3>2, <1>8, <1>9, <1>2, <1>3 DEF DeltaOK, d
  <2>2. CASE v # w
    <3>1. DeltaOK(v) /\ token'[v] = token[v] /\ delta'[v] = delta[v]
      BY <1>4, <1>10, <2>2 DEF NInv, Tokens
    <3>2. \A k \in Nat : k <= fresh => k <= fresh'
      BY <1>2, <1>5
    <3> QED
      BY <3>1, <3>2, <1>2 DEF DeltaOK
  <2> QED
    BY <2>1, <2>2
<1>11. ASSUME NEW v \in Workers, v # w, token'[v] # NoToken
       PROVE  /\ delta'[v].abstract.new # n /\ delta'[v].abstract.old # n
              /\ delta'[v].abstract.new # g
  <2>1. DeltaOK(v) /\ delta'[v] = delta[v]
    BY <1>4, <1>11 DEF NInv, Tokens
  <2> QED
    BY <2>1, <1>5 DEF DeltaOK
<1>12. Tokens'
  <2>1. delta' = [v \in Workers |-> delta'[v]]
    BY DEF NReKeyGen, NInv, Tokens
  <2>2. ASSUME NEW u \in Workers, NEW v \in Workers, u # v,
               token'[u] # NoToken, token'[v] # NoToken
        PROVE  /\ delta'[u].abstract.new # delta'[v].abstract.new
               /\ delta'[u].abstract.old # delta'[v].abstract.new
    <3>1. CASE u = w
      BY <2>2, <3>1, <1>9, <1>11 DEF d
    <3>2. CASE v = w
      BY <2>2, <3>2, <1>9, <1>11 DEF d
    <3>3. CASE u # w /\ v # w
      BY <2>2, <3>3, <1>4 DEF NInv, Tokens
    <3> QED
      BY <3>1, <3>2, <3>3
  <2> QED
    BY <2>1, <2>2, <1>10 DEF Tokens
<1>13. (\E q : Chain(q))'
  BY <1>2 DEF NInv, Chain, contents
<1> QED
  BY <1>1, <1>6, <1>12, <1>13 DEF NInv

\* What NReEncrypt does to the fields of a record.
LEMMA Rewrapped ==
    ASSUME NEW rec, NEW r, NEW g, NEW old, NEW n, NEW data,
           rec = [wrap |-> [root |-> r, gen |-> g], header |-> g, data |-> old,
                  root_version |-> r]
    PROVE  [rec EXCEPT !.wrap.gen = n, !.header = n, !.data = data]
           = [wrap |-> [root |-> r, gen |-> n], header |-> n, data |-> data,
              root_version |-> r]
<1> DEFINE w == [root |-> r, gen |-> n]
<1>1. rec.wrap = [root |-> r, gen |-> g]
  OBVIOUS
<1>2. [rec.wrap EXCEPT !.gen = n] = w
  BY <1>1
<1>3. [rec EXCEPT !.wrap.gen = n, !.header = n, !.data = data]
      = [rec EXCEPT !.wrap = [rec.wrap EXCEPT !.gen = n], !.header = n, !.data = data]
  BY <1>1
<1> HIDE DEF w
<1> DEFINE r1 == [rec EXCEPT !.wrap = w]
           r2 == [r1 EXCEPT !.header = n]
           r3 == [r2 EXCEPT !.data = data]
<1>4. r1 = [wrap |-> w, header |-> g, data |-> old, root_version |-> r]
  OBVIOUS
<1>5. r2 = [wrap |-> w, header |-> n, data |-> old, root_version |-> r]
  <2> HIDE DEF r1
  <2> QED
    BY <1>4
<1>6. r3 = [wrap |-> w, header |-> n, data |-> data, root_version |-> r]
  <2> HIDE DEF r2
  <2> QED
    BY <1>5
<1>7. [rec EXCEPT !.wrap.gen = n, !.header = n, !.data = data] = r3
  BY <1>2, <1>3
<1> HIDE DEF r3
<1> QED
  BY <1>6, <1>7 DEF w

\* A re-encryption puts one call before the chain, if its token is of what is
\* stored; if not, the calls end at the payload under the new layer, which the
\* keys in the token's history do not open.
LEMMA NInvReEncrypt ==
    ASSUME MaxUpdates < k_t, NInv, NEW w \in Workers, NReEncrypt(w)
    PROVE  NInv'
<1> DEFINE g == record.header
           d == delta[w]
           o == d.abstract.old
           n == d.abstract.new
           inner == Take(payload, d.length)
           meta == ciphertext_hat'.of
           first == FirstCall(payload', meta)
           second == [payload |-> inner, payload_key |-> PayloadKey(o),
                      history_key |-> HistoryOf(o, token[w].layers),
                      length |-> d.length]
<1>1. Inv'
  BY InvInductive DEF NReEncrypt, NInv, Next
<1>2. token[w] # NoToken /\ DeltaOK(w)
  BY DEF NReEncrypt, AE_ReEncrypt, NInv, Tokens
<1>3. token[w] \in [length : Nat, layers : Nat]
  BY <1>2 DEF NInv, Inv, TypeOK
<1>4. /\ payload_length' = token[w].length + LayerSize
      /\ layers' = token[w].layers + 1
      /\ token' = [token EXCEPT ![w] = NoToken]
      /\ data_len' = data_len /\ fresh' = fresh
  BY DEF NReEncrypt, AE_ReEncrypt
<1>5. /\ d.ct_hat = gcm_encrypt(Meta(Seed(n), PayloadKey(n), HistoryKey(n),
                                    token[w].length + LayerSize), MetaSize, Dek(n))
      /\ d.ct_hat_history = gcm_encrypt_2(PayloadKey(o), HistoryOf(o, token[w].layers),
                                          HistoryKey(n))
      /\ d.length = token[w].length /\ d.key_ae = PayloadKey(n)
      /\ d.prg_seed = Seed(n) /\ d.dek = Dek(n)
  BY <1>2 DEF DeltaOK
<1>6. inner.length = d.length
  BY DEF Take, gcm_encrypt
<1>7. /\ dek' = Dek(n) /\ ciphertext_hat' = d.ct_hat
      /\ payload' = gcm_encrypt_4(inner, d.ct_hat_history, PayloadKey(n))
      /\ pad' = prg_aes_ctr(Seed(n), ctx_length - payload'.length)
  BY <1>5 DEF NReEncrypt
<1>8. payload'.key = PayloadKey(n) /\ payload'.length = payload_length'
  BY <1>4, <1>5, <1>6, <1>7 DEF gcm_encrypt_4, gcm_encrypt
<1>9. record' = Written(n, IF o = g THEN record.data.msg ELSE Garbage)
  <2>1. record = Written(g, record.data.msg)
    BY DEF NInv, Sealed
  <2>2. record' = [record EXCEPT !.wrap.gen = n, !.header = n,
                                 !.data = ReEncryptedData(d.abstract, record.data)]
    BY <2>1 DEF NReEncrypt, ReEncryptedHeader, Written
  <2>3. ReEncryptedData(d.abstract, record.data)
        = Encrypted(n, IF o = g THEN record.data.msg ELSE Garbage)
    <3>1. record.data.gen = g
      BY <2>1 DEF Written, Encrypted
    <3> QED
      BY <3>1 DEF ReEncryptedData, Encrypted
  <2>4. record' = [wrap |-> [root |-> Root, gen |-> n], header |-> n,
                   data |-> ReEncryptedData(d.abstract, record.data),
                   root_version |-> Root]
    <3> DEFINE data == ReEncryptedData(d.abstract, record.data)
               old == Encrypted(g, record.data.msg)
    <3>1. record = [wrap |-> [root |-> Root, gen |-> g], header |-> g, data |-> old,
                    root_version |-> Root]
      BY <2>1 DEF Written
    <3>2. record' = [record EXCEPT !.wrap.gen = n, !.header = n, !.data = data]
      BY <2>2
    <3> HIDE DEF data, old, g, n
    <3>3. record' = [wrap |-> [root |-> Root, gen |-> n], header |-> n, data |-> data,
                     root_version |-> Root]
      BY <3>1, <3>2, Rewrapped
    <3> QED
      BY <3>3 DEF data
  <2> QED
    BY <2>3, <2>4 DEF Written
<1>10. /\ record'.header = n
       /\ record'.data.msg = IF o = g THEN record.data.msg ELSE Garbage
  BY <1>9 DEF Written, Encrypted
<1>11. fresh \in Nat /\ n \in Nat /\ n <= fresh /\ o # n
  BY <1>2 DEF DeltaOK, NInv, Sealed
<1>12. layers' # 0
  BY <1>3, <1>4
<1>13. Sealed'
  <2>1. ctx_length' = ctx_length
    BY <1>4 DEF ctx_length
  <2>2. HistoryOf(n, layers') = HistoryKey(n)
    BY <1>12 DEF HistoryOf
  <2>3. ciphertext_hat' = gcm_encrypt(Meta(Seed(n), PayloadKey(n), HistoryOf(n, layers'),
                                           payload_length'), MetaSize, Dek(n))
    BY <1>4, <1>5, <1>7, <2>2
  <2> HIDE DEF n
  <2> QED
    BY <1>4, <1>7, <1>8, <1>9, <1>10, <1>11, <2>1, <2>3 DEF Sealed
<1>14. Tokens'
  <2>1. /\ token'[w] = NoToken
        /\ \A v \in Workers : v # w => token'[v] = token[v] /\ delta'[v] = delta[v]
    BY <1>4 DEF NReEncrypt, NInv, Inv, TypeOK
  <2>2. delta' = [v \in Workers |-> delta'[v]]
    BY DEF NReEncrypt, NInv, Tokens
  <2>3. ASSUME NEW v \in Workers, token'[v] # NoToken PROVE DeltaOK(v)'
    <3>1. v # w /\ token'[v] = token[v] /\ delta'[v] = delta[v] /\ DeltaOK(v)
      BY <2>1, <2>3 DEF NInv, Tokens
    <3>2. delta[v].abstract.old # n /\ delta[v].abstract.new # n
      BY <1>2, <2>3, <3>1 DEF NInv, Tokens
    <3> HIDE DEF n
    <3> QED
      BY <1>4, <1>10, <3>1, <3>2 DEF DeltaOK
  <2>4. ASSUME NEW u \in Workers, NEW v \in Workers, u # v,
               token'[u] # NoToken, token'[v] # NoToken
        PROVE  /\ delta'[u].abstract.new # delta'[v].abstract.new
               /\ delta'[u].abstract.old # delta'[v].abstract.new
    BY <2>1, <2>4 DEF NInv, Tokens
  <2> QED
    BY <2>2, <2>3, <2>4 DEF Tokens
<1>15. Peel(first) = second
  <2>1. meta = Meta(Seed(n), PayloadKey(n), HistoryKey(n), token[w].length + LayerSize)
    BY <1>5, <1>7 DEF gcm_encrypt
  <2>2. first = [payload |-> gcm_encrypt_4(inner, d.ct_hat_history, PayloadKey(n)),
                 payload_key |-> PayloadKey(n), history_key |-> HistoryKey(n),
                 length |-> token[w].length + LayerSize]
    BY <1>7, <2>1 DEF FirstCall, Meta
  <2>3. inner.length \in Int /\ token[w].length + LayerSize = inner.length + LayerSize
    BY <1>3, <1>5, <1>6
  <2> HIDE DEF inner, first, meta, n, o, d
  <2> QED
    BY <1>5, <1>6, <2>2, <2>3, LayerPeels, KeysDiffer
<1>16. CASE o = g
  <2>1. PICK q : Chain(q)
    BY DEF NInv
  <2>2. /\ token[w].layers = layers
        /\ token[w].length = payload_length
    BY <1>2, <1>16 DEF DeltaOK, NInv, Inv, TokenOK
  <2>3. q[0] = second
    <3>1. inner = payload
      BY <1>5, <2>2 DEF NInv, Sealed, Take
    <3>2. ciphertext_hat.of
          = Meta(Seed(g), PayloadKey(g), HistoryOf(g, layers), payload_length)
      BY DEF NInv, Sealed, gcm_encrypt
    <3> QED
      BY <1>5, <1>16, <2>1, <2>2, <3>1, <3>2 DEF Chain, FirstCall, Meta
  <2> DEFINE r == [k \in Nat |-> IF k = 0 THEN first ELSE q[k - 1]]
  <2> HIDE DEF first, second
  <2>4. r[0] = first
    OBVIOUS
  <2>5. ASSUME NEW k \in Nat PROVE r[k + 1] = Peel(r[k])
    <3>1. r[k + 1] = q[k]
      OBVIOUS
    <3>2. CASE k = 0
      BY <3>1, <3>2, <1>15, <2>3
    <3>3. CASE k # 0
      <4>1. k - 1 \in Nat /\ (k - 1) + 1 = k /\ r[k] = q[k - 1]
        BY <3>3
      <4>2. q[(k - 1) + 1] = Peel(q[k - 1])
        BY <4>1, <2>1 DEF Chain
      <4> QED
        BY <3>1, <4>1, <4>2
    <3> QED
      BY <3>2, <3>3
  <2>6. ASSUME NEW k \in Nat, k >= layers' PROVE Innermost(r[k]) = record'.data.msg
    <3>1. layers \in Nat /\ layers' = layers + 1
      BY <1>3, <1>4, <2>2
    <3>2. k - 1 \in Nat /\ k - 1 >= layers /\ r[k] = q[k - 1]
      BY <2>6, <3>1
    <3> QED
      BY <1>10, <1>16, <2>1, <3>2 DEF Chain
  <2> HIDE DEF r
  <2>7. \E x : /\ x[0] = FirstCall(payload', ciphertext_hat'.of)
               /\ \A k \in Nat : x[k + 1] = Peel(x[k])
               /\ \A k \in Nat : k >= layers' => Innermost(x[k]) = record'.data.msg
    BY <2>4, <2>5, <2>6 DEF first
  <2>8. (\E x : Chain(x))'
    BY <2>7 DEF Chain
  <2> QED
    BY <1>1, <1>13, <1>14, <2>8 DEF NInv
<1>17. CASE o # g
  <2>1. inner.key # PayloadKey(o)
    BY <1>17, KeysDiffer DEF NInv, Sealed, Take, gcm_encrypt
  <2>2. ~Verifies(second.payload, second.length, second.payload_key)
    BY <2>1 DEF Verifies
  <2>3. Peel(second) = second
    BY <2>2, Stuck
  <2>4. Innermost(second) = Garbage
    BY <2>2 DEF Innermost
  <2> DEFINE r == [k \in Nat |-> IF k = 0 THEN first ELSE second]
  <2> HIDE DEF first, second
  <2>5. /\ r[0] = first
        /\ \A k \in Nat : r[k + 1] = Peel(r[k])
    BY <1>15, <2>3
  <2>6. ASSUME NEW k \in Nat, k >= layers' PROVE Innermost(r[k]) = record'.data.msg
    <3>1. k # 0
      BY <1>3, <1>4, <2>6
    <3> QED
      BY <1>10, <1>17, <2>4, <3>1
  <2> HIDE DEF r
  <2>7. \E x : /\ x[0] = FirstCall(payload', ciphertext_hat'.of)
               /\ \A k \in Nat : x[k + 1] = Peel(x[k])
               /\ \A k \in Nat : k >= layers' => Innermost(x[k]) = record'.data.msg
    BY <2>5, <2>6 DEF first
  <2>8. (\E x : Chain(x))'
    BY <2>7 DEF Chain
  <2> QED
    BY <1>1, <1>13, <1>14, <2>8 DEF NInv
<1> QED
  BY <1>16, <1>17

LEMMA NInvInductive ==
    ASSUME MaxUpdates < k_t
    PROVE  /\ NInit => NInv
           /\ NInv /\ [NNext]_nvars => NInv'
<1>1. ASSUME NInv, UNCHANGED nvars PROVE NInv'
  <2>1. Inv'
    BY <1>1, InvInductive DEF NInv, nvars
  <2> QED
    BY <1>1, <2>1 DEF NInv, Sealed, Tokens, DeltaOK, Chain, nvars, vars, contents,
                      ctx_length
<1> QED
  BY <1>1, NInvInit, NInvUpload, NInvReKeyGen, NInvReEncrypt DEF NNext

\* With the contents, the lengths do what they do without them, so that the
\* theorems on lengths hold of the nested ciphertext.
THEOREM NestedKeepsLengths == NSpec => Spec
<1>1. NInit => Init
  BY DEF NInit
<1>2. [NNext]_nvars => [Next]_vars
  BY DEF NNext, Next, NUpload, NReKeyGen, NReEncrypt, nvars, vars
<1> QED
  BY <1>1, <1>2, PTL DEF NSpec, Spec

\* As long as a record gets fewer than k_t layers between uploads, what
\* AE_Decrypt (AE_Nested_AES.c:103-149) makes of the stored layers, keys and pad
\* is what Ciphertext says of the record, for any number of layers and workers,
\* whatever tokens were older than the payload they were used on.
THEOREM DecryptAgrees ==
    ASSUME MaxUpdates < k_t
    PROVE  NSpec => []AgreesWithCiphertext
<1>1. NInv => AgreesWithCiphertext
  BY DecryptsToEnd DEF AgreesWithCiphertext
<1> QED
  BY <1>1, NInvInductive, PTL DEF NSpec

\* Under the same bound, a re-encryption with a token that was made for the
\* payload it meets keeps what a reader gets: the new keys lead through all
\* earlier layers to the message.
THEOREM FreshTokenAlwaysKeepsMessage ==
    ASSUME MaxUpdates < k_t
    PROVE  NSpec => FreshTokenKeepsMessage
<1> DEFINE Keeps == \A w \in Workers :
             NReEncrypt(w) /\ delta[w].abstract.old = record.data.gen
                 => AE_Decrypt' = AE_Decrypt
<1>1. NInv => AgreesWithCiphertext
  BY DecryptsToEnd DEF AgreesWithCiphertext
<1>2. NInv' => AgreesWithCiphertext'
  BY <1>1, PTL
<1>3. NInv /\ NInv' /\ [NNext]_nvars => [Keeps]_nvars
  <2>1. ASSUME NInv, NInv', NEW w \in Workers, NReEncrypt(w),
               delta[w].abstract.old = record.data.gen
        PROVE  AE_Decrypt' = AE_Decrypt
    <3>1. AE_Decrypt = Plaintext(record) /\ AE_Decrypt' = Plaintext(record')
      BY <1>1, <1>2, <2>1 DEF AgreesWithCiphertext
    <3>2. /\ Plaintext(record) = record.data.msg
          /\ Plaintext(record') = record'.data.msg
      BY <2>1, PlaintextIsMessage DEF NInv, Sealed
    <3>3. record'.data.msg = record.data.msg
      <4>1. record = Written(record.header, record.data.msg)
        BY <2>1 DEF NInv, Sealed
      <4>2. record'.data = ReEncryptedData(delta[w].abstract, record.data)
        BY <2>1, <4>1 DEF NReEncrypt, Written
      <4> QED
        BY <2>1, <4>2 DEF ReEncryptedData
    <3> QED
      BY <3>1, <3>2, <3>3
  <2> QED
    BY <2>1
<1> QED
  BY <1>3, NInvInductive, PTL DEF NSpec, FreshTokenKeepsMessage
=============================================================================
