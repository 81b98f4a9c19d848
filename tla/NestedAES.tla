------------------------------ MODULE NestedAES ------------------------------
(***************************************************************************)
(* The updatable ciphertext itself: what AE_Nested_AES.c puts into header, *)
(* payload and token, over AES-GCM and AES-CTR as sealed boxes and pads.   *)
(* One record, with the lengths of PadBudget, and beside it the same       *)
(* record as Ciphertext has it for the protocol models: they have to agree *)
(* on what a reader gets, stale tokens included.                           *)
(***************************************************************************)
EXTENDS PadBudget, Ciphertext

CONSTANT MaxGens     \* bound on AE_Encrypt and AE_ReKeyGen together

VARIABLES
    dek,             \* the key in the record's wrap
    ciphertext_hat,  \* the header
    payload,         \* the payload, from its own header on
    pad,             \* what follows it in the stored value
    delta,           \* the token that each worker has made
    fresh,           \* the last generation of keys that was drawn
    record           \* the same record, of Ciphertext

contents == <<dek, ciphertext_hat, payload, pad>>
nvars == <<vars, contents, delta, fresh, record>>

\* RAND_bytes: what is drawn for generation g.
ZeroKey == <<"zero", 0>>
Dek(g) == <<"dek", g>>
PayloadKey(g) == <<"payload", g>>
HistoryKey(g) == <<"history", g>>
Seed(g) == <<"seed", g>>

MetaSize == 52                 \* sizeof(ct_hat_data)
Meta(seed, payload_key, history_key, length) ==
    [prg_seed |-> seed, payload_key |-> payload_key,
     history_key |-> history_key, ct_payload_length |-> length]
-----------------------------------------------------------------------------
(***************************************************************************)
(* AES-GCM opens with the key, and the length, it was sealed with; the     *)
(* variants for several plaintexts seal them one after the other.  AES-CTR *)
(* over zeros is a function of its seed.                                   *)
(***************************************************************************)
gcm_encrypt(plain, length, key) == [key |-> key, length |-> length, of |-> plain]
\* (Faulty: the second plaintext is not carried.)
EncryptFirstOnly(payload_key, history_key, key) ==
    gcm_encrypt([payload_key |-> payload_key, history_key |-> ZeroKey],
                HistorySize, key)
gcm_encrypt_2(payload_key, history_key, key) ==
    gcm_encrypt([payload_key |-> payload_key, history_key |-> history_key],
                HistorySize, key)
gcm_encrypt_4(inner, history, key) ==
    gcm_encrypt([payload |-> inner, history |-> history],
                inner.length + LayerSize, key)
\* gcm_decrypt returns -1 unless the tag verifies; if it does, c.of.
Verifies(c, length, key) == c.key = key /\ c.length = length

ctr_encrypt(plain, size, key) == [seed |-> key, size |-> size, of |-> plain]
prg_aes_ctr(seed, size) == ctr_encrypt("zeros", size, seed)

\* The first length bytes of a payload, or of it and what follows it.
Take(p, length) ==
    IF p.length = length THEN p ELSE gcm_encrypt(Garbage, length, ZeroKey)
-----------------------------------------------------------------------------
(***************************************************************************)
(* AE_Decrypt.  decrypt_last_step calls itself on the payload inside, with *)
(* the keys that the history gives, until the history key is zero: one     *)
(* call after the other, each from the only element of a set.              *)
(***************************************************************************)
Peel(s) ==
    LET layer == s.payload.of
        history == layer.history
    IN  IF /\ s.history_key # ZeroKey
           /\ Verifies(s.payload, s.length, s.payload_key)
           /\ Verifies(history, HistorySize, s.history_key)
          THEN [payload |-> layer.payload, payload_key |-> history.of.payload_key,
                history_key |-> history.of.history_key, length |-> s.length - LayerSize]
          ELSE s
Calls(first, depth) ==
    LET peeled[n \in 0..depth] ==
            IF n = 0 THEN {first} ELSE {Peel(s) : s \in peeled[n - 1]}
    IN  peeled
FirstCall(p, meta) ==
    [payload |-> p, payload_key |-> meta.payload_key,
     history_key |-> meta.history_key, length |-> meta.ct_payload_length]
\* What the innermost call makes of what is left.
Innermost(s) ==
    IF s.history_key = ZeroKey /\ Verifies(s.payload, s.length, s.payload_key)
      THEN s.payload.of ELSE Garbage
decrypt_last_step(p, meta) ==
    LET depth == meta.ct_payload_length \div LayerSize
    IN  Innermost(CHOOSE s \in Calls(FirstCall(p, meta), depth)[depth] : TRUE)

\* It returns nothing: the caller cannot tell a message from what a failed
\* step left in the buffer.
AE_Decrypt ==
    LET meta == ciphertext_hat.of
        pad_len == ctx_length - meta.ct_payload_length
    IN  IF /\ Verifies(ciphertext_hat, MetaSize, dek)
           /\ meta.ct_payload_length <= ctx_length
           /\ pad = prg_aes_ctr(meta.prg_seed, pad_len)
          THEN decrypt_last_step(Take(payload, meta.ct_payload_length), meta)
          ELSE Garbage
-----------------------------------------------------------------------------
\* AE_Encrypt, for message m with keys of generation g.
Encrypt(g, m, size) ==
    /\ dek' = Dek(g)
    /\ payload' = gcm_encrypt(m, Length, PayloadKey(g))
    /\ pad' = prg_aes_ctr(Seed(g), size)
    /\ ciphertext_hat' = gcm_encrypt(Meta(Seed(g), PayloadKey(g), ZeroKey, Length),
                                     MetaSize, Dek(g))

Root == CHOOSE r \in Roots : TRUE
Written(g, m) ==
    [wrap |-> [root |-> Root, gen |-> g], header |-> g,
     data |-> Encrypted(g, m), root_version |-> Root]

NoDelta == [length |-> -1]

\* What populate stored lacks the last HeaderSize bytes of the pad.
NInit ==
    /\ Init
    /\ fresh = 1
    /\ dek = Dek(1)
    /\ pad = prg_aes_ctr(Seed(1), ctx_length - Length)
    /\ ciphertext_hat = gcm_encrypt(Meta(Seed(1), PayloadKey(1), ZeroKey, Length),
                                    MetaSize, Dek(1))
    /\ delta = [w \in Workers |-> NoDelta]
    /\ \E m \in Messages :
          /\ payload = gcm_encrypt(m, Length, PayloadKey(1))
          /\ record = Written(1, m)

\* updatable_encrypt_and_upload.
NUpload ==
    /\ fresh < MaxGens
    /\ Upload
    /\ fresh' = fresh + 1
    /\ \E m \in Messages :
          /\ Encrypt(fresh', m, k_t * LayerSize)
          /\ record' = Written(fresh', m)
    /\ UNCHANGED delta

\* AE_ReKeyGen, on the wrap and header a worker downloaded together.
NReKeyGen(w) ==
    LET g == fresh + 1
        old_meta == ciphertext_hat.of
        new_length == old_meta.ct_payload_length + LayerSize
        new_meta == Meta(Seed(g), PayloadKey(g), HistoryKey(g), new_length)
    IN  /\ fresh < MaxGens
        /\ AE_ReKeyGen(w)
        /\ fresh' = g
        /\ Verifies(ciphertext_hat, MetaSize, dek)
        /\ delta' = [delta EXCEPT ![w] =
              [ct_hat |-> gcm_encrypt(new_meta, MetaSize, Dek(g)),
               ct_hat_history |-> gcm_encrypt_2(old_meta.payload_key,
                                                old_meta.history_key, HistoryKey(g)),
               length |-> old_meta.ct_payload_length,
               key_ae |-> PayloadKey(g), prg_seed |-> Seed(g),
               dek |-> Dek(g), abstract |-> ReKeyGen(record.header, g)]]
        /\ UNCHANGED <<contents, record>>

\* AE_ReEncrypt, of the value the server holds by now; the new wrap is stored
\* with it.  What is stored when it refuses is left to PadBudget (intact).
\* (Faulty: the pad is left as it was.)
NReEncryptOldPad(w) ==
    LET d == delta[w]
    IN  /\ AE_ReEncrypt(w)
        /\ intact'
        /\ dek' = d.dek
        /\ ciphertext_hat' = d.ct_hat
        /\ payload' = gcm_encrypt_4(Take(payload, d.length), d.ct_hat_history, d.key_ae)
        /\ pad' = prg_aes_ctr(pad.seed, ctx_length - payload'.length)
        /\ record' = [record EXCEPT !.wrap.gen = d.abstract.new,
                                    !.header = ReEncryptedHeader(d.abstract),
                                    !.data = ReEncryptedData(d.abstract, @)]
        /\ delta' = [delta EXCEPT ![w] = NoDelta]
        /\ UNCHANGED fresh
NReEncrypt(w) ==
    LET d == delta[w]
    IN  /\ AE_ReEncrypt(w)
        /\ intact'
        /\ dek' = d.dek
        /\ ciphertext_hat' = d.ct_hat
        /\ payload' = gcm_encrypt_4(Take(payload, d.length), d.ct_hat_history, d.key_ae)
        /\ pad' = prg_aes_ctr(d.prg_seed, ctx_length - payload'.length)
        /\ record' = [record EXCEPT !.wrap.gen = d.abstract.new,
                                    !.header = ReEncryptedHeader(d.abstract),
                                    !.data = ReEncryptedData(d.abstract, @)]
        /\ delta' = [delta EXCEPT ![w] = NoDelta]
        /\ UNCHANGED fresh

NNext == NUpload \/ \E w \in Workers : NReKeyGen(w) \/ NReEncrypt(w)
NSpec == NInit /\ [][NNext]_nvars
-----------------------------------------------------------------------------
(***************************************************************************)
(* Properties.                                                             *)
(***************************************************************************)
\* What AE_Decrypt makes of the nested layers, keys and pad is what the
\* protocol models say of the record: its message, if every token was made for
\* the payload it was used on, and else garbage, for good until an upload.
AgreesWithCiphertext == AE_Decrypt = Plaintext(record)

\* An update with a token that was made for the payload it meets keeps what a
\* reader gets: the history leads from the new keys to all earlier ones.
FreshTokenKeepsMessage ==
    [][\A w \in Workers :
          NReEncrypt(w) /\ delta[w].abstract.old = record.data.gen
              => AE_Decrypt' = AE_Decrypt]_nvars
=============================================================================
