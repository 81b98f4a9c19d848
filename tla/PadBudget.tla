------------------------------ MODULE PadBudget ------------------------------
(***************************************************************************)
(* The lengths of a nested-AES ciphertext, AE_Nested_AES.c.  A payload     *)
(* grows by one layer with every re-encryption, at the expense of a pad    *)
(* that AE_Encrypt appends for k_t layers; the length of the stored value  *)
(* does not change.  The length of the payload is in the header only, so   *)
(* AE_ReEncrypt has it from the token, which may be older than the payload *)
(* (AE_ReKeyGen ran on a worker, on a header downloaded before).           *)
(***************************************************************************)
EXTENDS Integers

CONSTANTS
    Workers,       \* the machines that make tokens
    Length,        \* message_size, the same in the arguments of all programs
    k_t,           \* the re-encryptions that AE_KeyGen provides for
    MaxUpdates     \* bound: a token is made for a payload of fewer layers

ASSUME LengthAssumption == Length \in Nat /\ k_t \in Nat /\ MaxUpdates \in Nat

HeaderSize == 32               \* sizeof(AE_ctx_header): an iv and a tag
HistorySize == 32              \* 2 * KEY_LEN: a payload key and a history key
LayerSize == 2 * HeaderSize + HistorySize       \* 2 * RHO + NU

NoToken == [length |-> -1, layers |-> -1]

VARIABLES
    data_len,       \* the length of the value stored as data_i
    payload_length, \* ct_payload_length in the header
    layers,         \* the layers around the message, by the header
    intact,         \* the value is one that AE_Encrypt or AE_ReEncrypt wrote
    token           \* what each worker's delta says of the old payload

vars == <<data_len, payload_length, layers, intact, token>>

\* AE_Encrypt fills a buffer of this length, and returns HeaderSize less.
BufferLength == HeaderSize + Length + k_t * LayerSize
\* (Faulty: the pad is one layer short.)
EncryptReturnsLess == Length + (k_t - 1) * LayerSize
EncryptReturns == Length + k_t * LayerSize

\* populate_database_updatable stores as many bytes as AE_Encrypt returned.
Init ==
    /\ data_len = EncryptReturns
    /\ payload_length = Length
    /\ layers = 0
    /\ intact = TRUE
    /\ token = [w \in Workers |-> NoToken]

\* Faulty: the pad is not stored.
UploadWithoutPad ==
    /\ data_len' = HeaderSize + Length
    /\ payload_length' = Length
    /\ layers' = 0
    /\ intact' = TRUE
    /\ UNCHANGED token

\* updatable_encrypt_and_upload stores the whole buffer.
Upload ==
    /\ data_len' = BufferLength
    /\ payload_length' = Length
    /\ layers' = 0
    /\ intact' = TRUE
    /\ UNCHANGED token

\* A worker makes a token; uploads and updates of others may come before the
\* server uses it.
AE_ReKeyGen(w) ==
    /\ token[w] = NoToken
    /\ intact
    /\ layers < MaxUpdates
    /\ token' = [token EXCEPT ![w] = [length |-> payload_length, layers |-> layers]]
    /\ UNCHANGED <<data_len, payload_length, layers, intact>>

\* up_update does not look at what AE_ReEncrypt returns: when it refuses, the
\* buffers that are stored were never written.
ctx_length == data_len - HeaderSize
\* (Faulty: the layer is added to the length of the current payload.)
ReEncryptCurrentLength(w) ==
    /\ token[w] # NoToken
    /\ payload_length' = payload_length + LayerSize
    /\ layers' = token[w].layers + 1
    /\ token' = [token EXCEPT ![w] = NoToken]
    /\ UNCHANGED <<data_len, intact>>
AE_ReEncrypt(w) ==
    /\ token[w] # NoToken
    /\ IF token[w].length > ctx_length
         THEN intact' = FALSE /\ UNCHANGED <<payload_length, layers>>
         ELSE /\ payload_length' = token[w].length + LayerSize
              /\ layers' = token[w].layers + 1
              /\ UNCHANGED intact
    /\ token' = [token EXCEPT ![w] = NoToken]
    /\ UNCHANGED data_len

Next == Upload \/ \E w \in Workers : AE_ReKeyGen(w) \/ AE_ReEncrypt(w)
Spec == Init /\ [][Next]_vars
-----------------------------------------------------------------------------
\* Every variable has its type.
TypeOK ==
    /\ data_len \in {BufferLength, EncryptReturns}
    /\ payload_length \in Nat /\ layers \in Nat
    /\ intact \in BOOLEAN
    /\ token \in [Workers -> {NoToken} \cup [length : Nat, layers : Nat]]

\* "payload lenght too big!" (AE_Nested_AES.c:198): what AE_ReEncrypt wrote,
\* a header and the payload with its new layer, is not longer than the stored
\* value, and no update stored what a refused one left in its buffers.
PayloadFits == intact /\ HeaderSize + payload_length <= data_len

\* The header does not lose count: what it gives as the payload's length is
\* that of the message in as many layers as were put around it, although the
\* server took the length from a token and never saw the header in the clear.
LengthCountsLayers == intact => payload_length = Length + layers * LayerSize
=============================================================================
