------------------------------- MODULE HqcKem -------------------------------
(***************************************************************************)
(* The two KEMs of the repository over one ideal public-key encryption:     *)
(* version 5.0 (target/hqc/kem/kem.c), whose decapsulation key carries all  *)
(* that decapsulation needs, and version 5.1 (target/hqc-5.1/kem), whose    *)
(* key is a seed from which every call derives it again.                    *)
(*                                                                          *)
(* A hash is the tuple of what it absorbs.  A ciphertext has the parts u, v *)
(* and salt; flip says that bits of u or v were changed by few enough       *)
(* positions for the code to correct them.  A shared secret is a byte: a    *)
(* function from bit positions to the hash each bit was taken from, since   *)
(* decapsulation selects between two hashes bit by bit.                     *)
(***************************************************************************)
EXTENDS Naturals, FiniteSets

CONSTANTS Holders,             \* who have key pairs
          Seeds,               \* what the generator may yield for seed_kem
          Messages, Salts,     \* and for m and salt
          Undecryptable,       \* messages whose encryptions do not decrypt
          Diffs,               \* what the bytes of differing vectors may OR up to
          MaxSent              \* bound on the ciphertexts sent

ASSUME KemConstants ==
  /\ Undecryptable \subseteq Messages
  /\ Cardinality(Messages) > 1
  /\ Diffs \subseteq 1 .. 255

VARIABLES pair,   \* the key pair of each holder
          sent,   \* the results of the encapsulations, with their m and salt
          last    \* the last decapsulation

vars == << pair, sent, last >>

Versions == {"5.0", "5.1"}
Bits == 0 .. 7
NoPair == [version |-> "none"]
NoCall == [holder |-> "none"]
-----------------------------------------------------------------------------
(* The i-th value squeezed from the stream over the seed; the streams of the  *)
(* two versions are separated by PARAM_K.                                     *)
xof(version, seed, i) == << "xof", version, seed, i >>

hash_h(ek) == << "H", ek >>
hash_g(h, m, salt) == [K |-> << "K", h, m, salt >>, theta |-> << "theta", h, m, salt >>]

(* A broken hash_j, over the salt of the ciphertext alone. *)
hash_j_salt(h, sigma, c) == << "J", h, sigma, c.salt >>

hash_j(h, sigma, c) == << "J", h, sigma, c >>

hqc_pke_keygen(seed) == [ek |-> << "ek", seed >>, dk |-> << "dk", seed >>]

hqc_pke_encrypt(ek, m, theta) ==
  [u |-> [ek |-> ek, theta |-> theta, flip |-> FALSE],
   v |-> [ek |-> ek, m |-> m, theta |-> theta, flip |-> FALSE]]

(* Few flipped bits are corrected.  Parts that do not belong together, and    *)
(* the rare ciphertext that does not decrypt, give some other message.        *)
hqc_pke_decrypt(dk, u, v) ==
  IF u.ek = << "ek", dk[2] >> /\ v.ek = u.ek /\ u.theta = v.theta /\ v.m \notin Undecryptable
  THEN v.m
  ELSE CHOOSE m \in Messages : m # v.m
-----------------------------------------------------------------------------
(* The PKE key pair and the rejection secret.  A broken one squeezes sigma    *)
(* first.                                                                     *)
rederive_swapped(seed) ==
  [pke |-> hqc_pke_keygen(xof("5.1", seed, 2)), sigma |-> xof("5.1", seed, 1)]

rederive(seed) ==
  [pke |-> hqc_pke_keygen(xof("5.1", seed, 1)), sigma |-> xof("5.1", seed, 2)]

hqc_kem_keygen(seed) ==
  [version |-> "5.1", ek |-> hqc_pke_keygen(xof("5.1", seed, 1)).ek, dk |-> seed]

crypto_kem_keypair(seed) ==
  LET pke == hqc_pke_keygen(xof("5.0", seed, 1))
  IN [version |-> "5.0", ek |-> pke.ek,
      dk |-> << pke.ek, pke.dk, xof("5.0", seed, 2), seed >>]

(* crypto_kem_enc and hqc_kem_encaps. *)
encaps(ek, m, salt) ==
  LET g == hash_g(hash_h(ek), m, salt)
      pke == hqc_pke_encrypt(ek, m, g.theta)
  IN [K |-> [b \in Bits |-> g.K], c |-> [u |-> pke.u, v |-> pke.v, salt |-> salt]]

(* r is a uint16_t that starts at 0x0100; the broken one starts at 0. *)
vect_compare_bare(a, b, diff) ==
  LET r == IF a = b THEN 0 ELSE diff IN (((r + 65535) % 65536) \div 256) % 256

vect_compare(a, b, diff) ==
  LET r == 256 + (IF a = b THEN 0 ELSE diff) IN (((r + 65535) % 65536) \div 256) % 256

BitsOf(n) == {b \in Bits : (n \div 2^b) % 2 = 1}

(* The parts compared with those of the re-encryption; a broken comparison    *)
(* leaves v out.                                                              *)
compared_without_v(c, re, diff) == {vect_compare(c.u, re.u, diff), vect_compare(c.salt, re.salt, diff)}

compared(c, re, diff) ==
  {vect_compare(c.u, re.u, diff), vect_compare(c.v, re.v, diff), vect_compare(c.salt, re.salt, diff)}

BitOr(S) ==
  LET set == UNION {BitsOf(x) : x \in S}
      bit(b) == IF b \in set THEN 2^b ELSE 0
  IN bit(0) + bit(1) + bit(2) + bit(3) + bit(4) + bit(5) + bit(6) + bit(7)

(* result: what hqc_pke_decrypt returns, which is 0, the comparisons and the  *)
(* subtraction of 1 in uint8_t.                                               *)
selection(c, re, diff) == (BitOr({0} \cup compared(c, re, diff)) + 255) % 256

(* What a decapsulation key gives to work with. *)
unpack_dk(kp) ==
  IF kp.version = "5.1" THEN rederive(kp.dk)
  ELSE [pke |-> [ek |-> kp.dk[1], dk |-> kp.dk[2]], sigma |-> kp.dk[3]]

(* crypto_kem_dec and hqc_kem_decaps. *)
decaps(kp, c, diff) ==
  LET own == unpack_dk(kp)
      m == hqc_pke_decrypt(own.pke.dk, c.u, c.v)
      h == hash_h(own.pke.ek)
      g == hash_g(h, m, c.salt)
      pke == hqc_pke_encrypt(own.pke.ek, m, g.theta)
      mask == selection(c, [u |-> pke.u, v |-> pke.v, salt |-> c.salt], diff)
      K_bar == hash_j(h, own.sigma, c)
  IN [mask |-> mask, K |-> [b \in Bits |-> IF b \in BitsOf(mask) THEN g.K ELSE K_bar]]
-----------------------------------------------------------------------------
Init ==
  /\ pair = [h \in Holders |-> NoPair]
  /\ sent = {}
  /\ last = NoCall

HasPair(h) == pair[h] # NoPair

KeyGen(h, version, seed) ==
  /\ ~ HasPair(h)
  /\ pair' = [pair EXCEPT ![h] = IF version = "5.1" THEN hqc_kem_keygen(seed)
                                 ELSE crypto_kem_keypair(seed)]
  /\ UNCHANGED << sent, last >>

(* The generator is the caller's: m and salt may come again.                  *)
Encaps(h, m, salt) ==
  LET r == encaps(pair[h].ek, m, salt)
  IN /\ HasPair(h)
     /\ Cardinality(sent) < MaxSent
     /\ sent' = sent \cup {[ek |-> pair[h].ek, m |-> m, salt |-> salt, K |-> r.K, c |-> r.c]}
     /\ UNCHANGED << pair, last >>

Flipped(part) == {part, [part EXCEPT !.flip = TRUE]}

(* What arrives: a ciphertext with bits flipped, or put together from several. *)
Arriving ==
  {[u |-> u, v |-> v, salt |-> salt] :
     u \in UNION {Flipped(s.c.u) : s \in sent},
     v \in UNION {Flipped(s.c.v) : s \in sent}, salt \in Salts}

Decaps(h, c, diff) ==
  LET r == decaps(pair[h], c, diff)
  IN /\ HasPair(h)
     /\ last = NoCall
     /\ last' = [holder |-> h, c |-> c, mask |-> r.mask, K |-> r.K]
     /\ UNCHANGED << pair, sent >>

NextKeyGen == \E h \in Holders, v \in Versions, s \in Seeds : KeyGen(h, v, s)
NextEncaps == \E h \in Holders, m \in Messages, s \in Salts : Encaps(h, m, s)
NextDecaps == \E h \in Holders, d \in Diffs : \E c \in Arriving : Decaps(h, c, d)

Next == NextKeyGen \/ NextEncaps \/ NextDecaps

Spec == Init /\ [][Next]_vars
-----------------------------------------------------------------------------
Called == last # NoCall

(* The encapsulations that a ciphertext is the whole and unchanged result of. *)
SentTo(h, c) == {s \in sent : s.ek = pair[h].ek /\ s.c = c}

(* The holder of the key gets the secret of the sender, from a key that was   *)
(* stored (5.0) or derived again (5.1), unless the ciphertext is one of those *)
(* that do not decrypt (crypto_kem_dec, hqc_kem_decaps).                      *)
Agreement ==
  Called => \A s \in SentTo(last.holder, last.c) :
              s.m \notin Undecryptable => last.K = s.K

(* Any other ciphertext, though the code corrects it back to the message that *)
(* was sent, gives a secret that has no bit of a sender's secret: whatever the *)
(* bytes differ by, the mask selects all of one hash or all of the other      *)
(* (vect_compare, hqc_kem_decaps).                                            *)
Rejection ==
  Called =>
    /\ last.mask \in {0, 255}
    /\ SentTo(last.holder, last.c) = {} =>
         \A s \in sent : \A b \in Bits : last.K[b] # s.K[b]

(* A secret is a function of key pair and ciphertext, and of no two alike: a  *)
(* rejected ciphertext gives the same secret whenever it comes, and no other  *)
(* ciphertext and no other key pair gives it too (hash_j over sigma and c).   *)
OneSecretPerCiphertext ==
  Called =>
    \A h \in Holders, c \in Arriving, d \in Diffs :
      HasPair(h) =>
        (decaps(pair[h], c, d).K = last.K <=> c = last.c /\ pair[h] = pair[last.holder])
=============================================================================
