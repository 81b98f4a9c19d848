----------------------------- MODULE Ciphertext -----------------------------
(***************************************************************************)
(* The updatable (nested AES) ciphertext of src/src/cd_encryption, as far  *)
(* as the key-rotation protocol can tell its values apart.                 *)
(*                                                                         *)
(* A "generation" names what one AE_KeyGen + AE_Encrypt, or one AE_KeyGen  *)
(* + AE_ReKeyGen, draws at random: the data-encryption key (DEK), the      *)
(* payload key and the pad seed.  They are drawn together, so two values   *)
(* fit each other exactly when they carry the same generation:             *)
(*   - a wrap holds the DEK of its generation, sealed under one root key;  *)
(*   - a header opens with that DEK and yields that payload key;           *)
(*   - a payload opens with that payload key.                              *)
(* A re-encrypted payload is the old one nested in a new layer.  Its outer *)
(* layer and its pad always check out, so a layer put around a payload of  *)
(* another generation is noticed only when the inner layer is opened: the  *)
(* message such a payload yields is Garbage.                               *)
(***************************************************************************)
CONSTANTS
    Roots,       \* root keys: handles of keys held by the HSM
    Gens,        \* generations
    Messages,    \* plaintexts
    Garbage      \* what comes out of a payload whose layers do not fit

ASSUME GarbageAssumption == Garbage \notin Messages

(***************************************************************************)
(* The values stored under wrap_i, header_i and data_i, and the token that *)
(* AE_ReKeyGen builds for AE_ReEncrypt.                                    *)
(***************************************************************************)
Wrap == [root : Roots, gen : Gens]
Header == Gens
Data == [gen : Gens, msg : Messages \cup {Garbage}]
Delta == [old : Gens, new : Gens]

\* AE_Encrypt: a payload of generation g holding m.
Encrypted(g, m) == [gen |-> g, msg |-> m]

\* AE_ReKeyGen: from a header of one generation to a fresh one.  The token
\* carries the new header, the old payload key and the old payload's length.
ReKeyGen(header, g) == [old |-> header, new |-> g]

\* AE_ReEncrypt: the header returned is the one the token carries, whatever
\* header the server holds; the payload gets the token's layer.
ReEncryptedHeader(delta) == delta.new
ReEncryptedData(delta, data) ==
    [gen |-> delta.new,
     msg |-> IF data.gen = delta.old THEN data.msg ELSE Garbage]

\* The fields of a stored record that a reader decrypts.
Opens(rec) ==
    /\ rec.wrap.root = rec.root_version
    /\ rec.wrap.gen = rec.header
    /\ rec.header = rec.data.gen

\* AE_Decrypt on what the record holds.
Plaintext(rec) == IF Opens(rec) THEN rec.data.msg ELSE Garbage
=============================================================================
