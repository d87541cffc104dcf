------------------------------- MODULE Sealing -------------------------------
(***************************************************************************)
(* The timelock package and the encoders of the Drand tools: how a bid     *)
(* becomes the bytes the contract hashes, what a seal and an auditor blob  *)
(* hold, and how BLS points are laid out for Soroban.                      *)
(*                                                                         *)
(* A byte is a digit to base Base; a value has ValueBytes of them and a    *)
(* nonce NonceBytes (256, 16 and 32 in the code; 48 bytes to a field       *)
(* element).  Cryptography is symbolic: a hash is its argument, a key      *)
(* agreement the set of the two keys, a public key its secret's name.      *)
(* Whatever throws returns Throws.                                         *)
(***************************************************************************)
EXTENDS Integers, Sequences, SequencesExt

CONSTANTS Base, ValueBytes, NonceBytes, FieldBytes, Throws, None

ASSUME SealingAssumption ==
    /\ Base \in Nat \ {0, 1} /\ Base % 2 = 0
    /\ ValueBytes \in Nat \ {0} /\ NonceBytes \in Nat \ {0} /\ FieldBytes \in Nat \ {0}

Byte == 0..(Base - 1)

(* what throws is no preimage and no opened bid *)
ASSUME ThrowsAssumption ==
    Throws \notin Seq(Byte) /\ Throws \notin [value : Int, nonce : Seq(Byte)]

(* Base to the n; recursive functions here, for the proofs *)
Power(n) == LET p[i \in 0..n] == IF i = 0 THEN 1 ELSE Base * p[i - 1] IN p[n]

Two128 == Power(ValueBytes)
Max128 == (Two128 \div 2) - 1
Min128 == -(Two128 \div 2)

(* the loop of i128ToBeBytes, be48 and beU64: lowest digit last *)
be(n, u) == [i \in 1..n |-> (u \div Power(n - i)) % Base]
Digits(bytes) ==
    LET d[i \in 0..Len(bytes)] == IF i = 0 THEN 0 ELSE d[i - 1] * Base + bytes[i]
    IN d[Len(bytes)]

----------------------------------------------------------------------------
(* commitment.ts *)

(* mutant: lowest byte first *)
i128LittleEndian(v) ==
    IF v < Min128 \/ v > Max128 THEN Throws ELSE Reverse(be(ValueBytes, v % Two128))

i128ToBeBytes(v) ==
    IF v < Min128 \/ v > Max128 THEN Throws ELSE be(ValueBytes, v % Two128)

(* mutant: the lowest value read as positive *)
beBytesStrict(bytes) ==
    IF Len(bytes) # ValueBytes THEN Throws
    ELSE LET u == Digits(bytes) IN IF u > Two128 \div 2 THEN u - Two128 ELSE u

beBytesToI128(bytes) ==
    IF Len(bytes) # ValueBytes THEN Throws
    ELSE LET u == Digits(bytes) IN IF u >= Two128 \div 2 THEN u - Two128 ELSE u

encodeBidPreimage(v, nonce) ==
    IF Len(nonce) # NonceBytes \/ i128ToBeBytes(v) = Throws THEN Throws
    ELSE i128ToBeBytes(v) \o nonce

decodeBidPreimage(p) ==
    IF Len(p) # ValueBytes + NonceBytes THEN Throws
    ELSE [value |-> beBytesToI128(SubSeq(p, 1, ValueBytes)),
          nonce |-> SubSeq(p, ValueBytes + 1, Len(p))]

commitment(v, nonce) ==
    IF encodeBidPreimage(v, nonce) = Throws THEN Throws
    ELSE [sha256 |-> encodeBidPreimage(v, nonce)]

----------------------------------------------------------------------------
(* auditor.ts *)

Shared(secret, public) == {secret, public}
deriveKey(shared, ephPub, auditorPub) ==
    [shared |-> shared, salt |-> <<ephPub, auditorPub>>]

(* eph is the fresh ephemeral key; the nonce is carried along *)
sealIdentity(identity, auditor, eph) ==
    <<eph, "nonce", [key |-> deriveKey(Shared(eph, auditor), eph, auditor), text |-> identity]>>

openIdentity(blob, secret) ==
    IF Len(blob) < 2 THEN Throws
    ELSE LET ephPub == blob[1]
             key == deriveKey(Shared(secret, ephPub), ephPub, secret)
         IN IF Len(blob) = 3 /\ blob[3].key = key THEN blob[3].text ELSE Throws

----------------------------------------------------------------------------
(* seal.ts *)

sealBid(p, eph) ==
    IF encodeBidPreimage(p.value, p.nonce) = Throws \/ ((p.identity = None) # (p.auditor = None))
    THEN Throws
    ELSE [commitment |-> commitment(p.value, p.nonce),
          ciphertext |-> [round |-> p.round, payload |-> encodeBidPreimage(p.value, p.nonce)],
          auditorBlob |-> IF p.identity = None THEN << >>
                          ELSE sealIdentity(p.identity, p.auditor, eph)]

(* tlock opens nothing before its round is out *)
openBid(c, latest) ==
    IF latest < c.round THEN Throws ELSE decodeBidPreimage(c.payload)

(* AuditorView: every row of the trace is opened on its own.  A secret     *)
(* that is not hex fails the whole run.                                    *)
decryptIdentities(blobs, secret) ==
    IF secret = None THEN Throws
    ELSE [i \in DOMAIN blobs |->
            IF blobs[i] = << >> THEN "no auditor blob in trace" ELSE openIdentity(blobs[i], secret)]

(* runSealAttackDemo: the steps that come out not ok, of a bid sealed to R *)
(* when the network is at `latest', or out of reach (0).  Without a seal   *)
(* what is stored is the preimage itself, and a loser need not reveal.  A  *)
(* failure to open counts as the seal holding, whatever its cause.         *)
runSealAttackDemo(p, eph, latest) ==
    LET stored == encodeBidPreimage(p.value, p.nonce)
        sealed == sealBid(p, eph)
        opened == IF latest = 0 THEN Throws ELSE openBid(sealed.ciphertext, latest)
    IN [off |-> {"Selective abort"} \cup (IF stored = Throws THEN {"Early read"} ELSE {}),
        on  |-> (IF opened # Throws THEN {"Decrypt before R", "Demo integrity"} ELSE {})
                \cup (IF commitment(p.value, p.nonce) # sealed.commitment
                      THEN {"Commitment binding"} ELSE {})]

(* runBidDecryptDemo: seals to a round long out and opens at once *)
runBidDecryptDemo(p, eph, latest) ==
    LET opened == openBid(sealBid(p, eph).ciphertext, latest)
    IN opened # Throws /\ opened.value = p.value

----------------------------------------------------------------------------
(* bls.ts and encode.ts: points as Soroban reads them *)

encodeG1(pt) == be(FieldBytes, pt.x) \o be(FieldBytes, pt.y)

encodeG2(pt, order) ==
    IF order = "c0c1"
    THEN be(FieldBytes, pt.x[1]) \o be(FieldBytes, pt.x[2])
         \o be(FieldBytes, pt.y[1]) \o be(FieldBytes, pt.y[2])
    ELSE be(FieldBytes, pt.x[2]) \o be(FieldBytes, pt.x[1])
         \o be(FieldBytes, pt.y[2]) \o be(FieldBytes, pt.y[1])

Variants == <<"sha256(be8)", "be8">>

(* parity.ts: the first construction that verifies; one that throws is     *)
(* passed over.  verify[v] is TRUE, FALSE or Throws.                       *)
detectMessageVariant(verify) ==
    LET i == SelectInSeq(Variants, LAMBDA v : verify[v] = TRUE)
    IN IF i = 0 THEN None ELSE Variants[i]

(* index.ts: the exit code of the harness *)
harness(verify) == IF detectMessageVariant(verify) = None THEN 1 ELSE 0

=============================================================================
