---------------------------- MODULE HqcKemProofs ----------------------------
(***************************************************************************)
(* The two ends of the HQC KEM, for any holders, seeds and messages and     *)
(* whatever the bytes of two differing vectors OR up to.                    *)
(***************************************************************************)
EXTENDS HqcKem, TLAPS

-----------------------------------------------------------------------------
(* The byte mask.                                                             *)
LEMMA BitsOfMasks ==
  BitsOf(0) = {} /\ BitsOf(1) = {0} /\ BitsOf(255) = Bits
<1>1. \A b \in Bits : b \in {0, 1, 2, 3, 4, 5, 6, 7}
  BY DEF Bits
<1>2. ASSUME NEW b \in Bits
      PROVE  /\ (0 \div 2^b) % 2 = 0
             /\ ((1 \div 2^b) % 2 = 1) <=> (b = 0)
             /\ (255 \div 2^b) % 2 = 1
  <2>0. CASE b = 0
    <3>1. 2^b = 1
      BY <2>0
    <3> QED
      BY <3>1, <2>0
  <2>1. CASE b = 1
    <3>1. 2^b = 2
      BY <2>1
    <3> QED
      BY <3>1, <2>1
  <2>2. CASE b = 2
    <3>1. 2^b = 4
      BY <2>2
    <3> QED
      BY <3>1, <2>2
  <2>3. CASE b = 3
    <3>1. 2^b = 8
      BY <2>3
    <3> QED
      BY <3>1, <2>3
  <2>4. CASE b = 4
    <3>1. 2^b = 16
      BY <2>4
    <3> QED
      BY <3>1, <2>4
  <2>5. CASE b = 5
    <3>1. 2^b = 32
      BY <2>5
    <3> QED
      BY <3>1, <2>5
  <2>6. CASE b = 6
    <3>1. 2^b = 64
      BY <2>6
    <3> QED
      BY <3>1, <2>6
  <2>7. CASE b = 7
    <3>1. 2^b = 128
      BY <2>7
    <3> QED
      BY <3>1, <2>7
  <2> QED
    BY <1>1, <2>0, <2>1, <2>2, <2>3, <2>4, <2>5, <2>6, <2>7
<1>3. BitsOf(0) = {}
  <2>1. \A b \in Bits : (0 \div 2^b) % 2 # 1
    BY <1>2
  <2> QED
    BY <2>1, Zenon DEF BitsOf
<1>4. BitsOf(1) = {0}
  <2>1. \A b \in Bits : ((1 \div 2^b) % 2 = 1) <=> (b = 0)
    BY <1>2
  <2>2. 0 \in Bits
    BY DEF Bits
  <2> QED
    BY <2>1, <2>2, Zenon DEF BitsOf
<1>5. BitsOf(255) = Bits
  <2>1. \A b \in Bits : (255 \div 2^b) % 2 = 1
    BY <1>2
  <2> QED
    BY <2>1, Zenon DEF BitsOf
<1> QED
  BY <1>3, <1>4, <1>5

LEMMA BitOrMasks ==
  BitOr({0}) = 0 /\ BitOr({0, 1}) = 1
<1>1. /\ UNION {BitsOf(x) : x \in {0}} = {}
      /\ UNION {BitsOf(x) : x \in {0, 1}} = {0}
  BY BitsOfMasks
<1>2. 2^0 = 1
  OBVIOUS
<1>3. BitOr({0}) = 0
  BY <1>1 DEF BitOr
<1>4. BitOr({0, 1}) = 1
  BY <1>1, <1>2 DEF BitOr
<1> QED
  BY <1>3, <1>4

(* Whatever differing vectors OR up to, the comparison says 0 or 1.           *)
LEMMA VectCompare ==
  ASSUME NEW a, NEW b, NEW diff \in Diffs
  PROVE  vect_compare(a, b, diff) = IF a = b THEN 0 ELSE 1
<1>1. diff \in 1 .. 255
  BY KemConstants
<1>2. (((256 + diff + 65535) % 65536) \div 256) % 256 = 1
  BY <1>1
<1>3. (((256 + 0 + 65535) % 65536) \div 256) % 256 = 0
  OBVIOUS
<1> QED
  BY <1>2, <1>3 DEF vect_compare

LEMMA Selection ==
  ASSUME NEW c, NEW re, NEW diff \in Diffs, re.salt = c.salt
  PROVE  selection(c, re, diff) = IF c.u = re.u /\ c.v = re.v THEN 255 ELSE 0
<1>1. vect_compare(c.salt, re.salt, diff) = 0
  BY VectCompare
<1>2. CASE c.u = re.u /\ c.v = re.v
  <2>1. {0} \cup compared(c, re, diff) = {0}
    BY <1>1, <1>2, VectCompare DEF compared
  <2>2. selection(c, re, diff) = (0 + 255) % 256
    BY <2>1, BitOrMasks, Zenon DEF selection
  <2> QED
    BY <1>2, <2>2
<1>3. CASE ~(c.u = re.u /\ c.v = re.v)
  <2>1. {0} \cup compared(c, re, diff) = {0, 1}
    BY <1>1, <1>3, VectCompare DEF compared
  <2>2. selection(c, re, diff) = (1 + 255) % 256
    BY <2>1, BitOrMasks, Zenon DEF selection
  <2> QED
    BY <1>3, <2>2
<1> QED
  BY <1>2, <1>3

-----------------------------------------------------------------------------
(* The key pair of a seed, in either version.                                 *)
pair_of(version, seed) ==
  IF version = "5.1" THEN hqc_kem_keygen(seed) ELSE crypto_kem_keypair(seed)

Pairs == { pair_of(v, seed) : v \in Versions, seed \in Seeds }

(* What a key gives to work with is what its seed gave, stored or derived     *)
(* again.                                                                     *)
LEMMA UnpackDk ==
  ASSUME NEW v \in Versions, NEW seed
  PROVE  LET p == pair_of(v, seed)
         IN /\ p.version = v
            /\ p.ek = << "ek", xof(v, seed, 1) >>
            /\ unpack_dk(p) = [pke |-> hqc_pke_keygen(xof(v, seed, 1)),
                               sigma |-> xof(v, seed, 2)]
<1>1. CASE v = "5.1"
  <2>1. pair_of(v, seed) = hqc_kem_keygen(seed)
    BY <1>1 DEF pair_of
  <2> QED
    BY <1>1, <2>1 DEF hqc_kem_keygen, hqc_pke_keygen, unpack_dk, rederive
<1>2. CASE v = "5.0"
  <2>1. pair_of(v, seed) = crypto_kem_keypair(seed)
    BY <1>2 DEF pair_of
  <2> QED
    BY <1>2, <2>1 DEF crypto_kem_keypair, hqc_pke_keygen, unpack_dk
<1> QED
  BY <1>1, <1>2 DEF Versions

LEMMA PairOfKey ==
  ASSUME NEW p \in Pairs, NEW q \in Pairs, p.ek = q.ek
  PROVE  p = q
<1>1. PICK v \in Versions, s \in Seeds : p = pair_of(v, s)
  BY DEF Pairs
<1>2. PICK w \in Versions, t \in Seeds : q = pair_of(w, t)
  BY DEF Pairs
<1>3. xof(v, s, 1) = xof(w, t, 1)
  BY <1>1, <1>2, UnpackDk
<1>4. v = w /\ s = t
  BY <1>3 DEF xof
<1> QED
  BY <1>1, <1>2, <1>4

(* What decapsulation decrypts, and what it encrypts again.                   *)
theta_of(p, m, salt) == << "theta", << "H", p.ek >>, m, salt >>
ciphertext(p, m, salt) ==
  LET pke == hqc_pke_encrypt(p.ek, m, theta_of(p, m, salt))
  IN [u |-> pke.u, v |-> pke.v, salt |-> salt]
m_of(p, c) == hqc_pke_decrypt(unpack_dk(p).pke.dk, c.u, c.v)
again(p, c) == ciphertext(p, m_of(p, c), c.salt)

Same(p, c) == c.u = again(p, c).u /\ c.v = again(p, c).v

(* The secret of an accepted and of a rejected ciphertext.                    *)
shared(p, m, salt) == [b \in Bits |-> << "K", << "H", p.ek >>, m, salt >>]
rejected(p, c) == [b \in Bits |-> << "J", << "H", p.ek >>, unpack_dk(p).sigma, c >>]

(* Decapsulation is one of two hashes, whole, whichever bytes differ.         *)
LEMMA DecapsCases ==
  ASSUME NEW p \in Pairs, NEW c, NEW diff \in Diffs
  PROVE  \/ /\ Same(p, c)
            /\ decaps(p, c, diff).mask = 255
            /\ decaps(p, c, diff).K = shared(p, m_of(p, c), c.salt)
         \/ /\ ~ Same(p, c)
            /\ decaps(p, c, diff).mask = 0
            /\ decaps(p, c, diff).K = rejected(p, c)
<1> DEFINE own == unpack_dk(p)
           m == hqc_pke_decrypt(own.pke.dk, c.u, c.v)
           h == hash_h(own.pke.ek)
           g == hash_g(h, m, c.salt)
           pke == hqc_pke_encrypt(own.pke.ek, m, g.theta)
           re == [u |-> pke.u, v |-> pke.v, salt |-> c.salt]
           mask == selection(c, re, diff)
           K_bar == hash_j(h, own.sigma, c)
           K == [b \in Bits |-> IF b \in BitsOf(mask) THEN g.K ELSE K_bar]
<1>1. own.pke.ek = p.ek
  <2>1. PICK v \in Versions, s \in Seeds : p = pair_of(v, s)
    BY DEF Pairs
  <2>2. own.pke = hqc_pke_keygen(xof(v, s, 1)) /\ p.ek = << "ek", xof(v, s, 1) >>
    BY <2>1, UnpackDk
  <2> QED
    BY <2>2 DEF hqc_pke_keygen
<1>2. /\ h = << "H", p.ek >> /\ m = m_of(p, c)
      /\ g.K = << "K", h, m, c.salt >> /\ g.theta = theta_of(p, m, c.salt)
      /\ K_bar = << "J", h, unpack_dk(p).sigma, c >>
  BY <1>1 DEF hash_h, hash_g, hash_j, m_of, theta_of
<1>3. pke.u = again(p, c).u /\ pke.v = again(p, c).v
  BY <1>1, <1>2 DEF again, ciphertext
<1>4. re.u = again(p, c).u /\ re.v = again(p, c).v /\ re.salt = c.salt
  BY <1>3
<1>5. decaps(p, c, diff) = [mask |-> mask, K |-> K]
  BY DEF decaps
<1> HIDE DEF own, m, h, g, pke, re, K_bar
<1>6. mask = IF Same(p, c) THEN 255 ELSE 0
  BY <1>4, Selection DEF Same
<1> HIDE DEF mask
<1>7. CASE Same(p, c)
  <2>1. mask = 255 /\ K = [b \in Bits |-> g.K]
    BY <1>6, <1>7, BitsOfMasks
  <2> QED
    BY <1>2, <1>5, <1>7, <2>1 DEF shared
<1>8. CASE ~ Same(p, c)
  <2>1. mask = 0 /\ K = [b \in Bits |-> K_bar]
    BY <1>6, <1>8, BitsOfMasks
  <2> QED
    BY <1>2, <1>5, <1>8, <2>1 DEF rejected
<1> QED
  BY <1>7, <1>8

-----------------------------------------------------------------------------
(* Every key pair is that of a seed, every ciphertext sent is what            *)
(* encapsulation makes for the key of one, and the last call is what          *)
(* decapsulation makes of a ciphertext that may have arrived, by the key that *)
(* its holder still has.                                                      *)
result(p, m, salt) ==
  LET r == encaps(p.ek, m, salt)
  IN [ek |-> p.ek, m |-> m, salt |-> salt, K |-> r.K, c |-> r.c]

PairsOfSeeds == pair \in [Holders -> Pairs \cup {NoPair}]

SentEncapsulated ==
  \A s \in sent : \E p \in Pairs, m \in Messages, salt \in Salts : s = result(p, m, salt)

LastDecapsulated ==
  Called => /\ last.holder \in Holders /\ HasPair(last.holder)
            /\ last.c \in Arriving
            /\ \E d \in Diffs : LET r == decaps(pair[last.holder], last.c, d)
                                IN last.mask = r.mask /\ last.K = r.K

IInv == PairsOfSeeds /\ SentEncapsulated /\ LastDecapsulated

LEMMA Result ==
  ASSUME NEW p, NEW m, NEW salt
  PROVE  /\ result(p, m, salt).ek = p.ek
         /\ result(p, m, salt).m = m
         /\ result(p, m, salt).salt = salt
         /\ result(p, m, salt).K = shared(p, m, salt)
         /\ result(p, m, salt).c = ciphertext(p, m, salt)
  BY DEF result, encaps, hash_g, hash_h, shared, ciphertext, theta_of

(* What can arrive grows with what was sent.                                  *)
LEMMA ArrivingGrows ==
  ASSUME sent \subseteq sent'
  PROVE  Arriving \subseteq Arriving'
<1>1. UNION {Flipped(s.c.u) : s \in sent} \subseteq UNION {Flipped(s.c.u) : s \in sent'}
  OBVIOUS
<1>2. UNION {Flipped(s.c.v) : s \in sent} \subseteq UNION {Flipped(s.c.v) : s \in sent'}
  OBVIOUS
<1> QED
  BY <1>1, <1>2 DEF Arriving

LEMMA PairTypes ==
  ASSUME PairsOfSeeds, NEW h \in Holders, HasPair(h)
  PROVE  pair[h] \in Pairs
  BY DEF PairsOfSeeds, HasPair

THEOREM Invariance == Spec => []IInv
<1>1. Init => IInv
  <2> SUFFICES ASSUME Init PROVE IInv
    OBVIOUS
  <2>1. ~ Called
    BY DEF Init, Called
  <2> QED
    BY <2>1 DEF Init, IInv, PairsOfSeeds, SentEncapsulated, LastDecapsulated
<1>2. IInv /\ [Next]_vars => IInv'
  <2> SUFFICES ASSUME IInv, [Next]_vars PROVE IInv'
    OBVIOUS
  <2> USE DEF IInv
  <2>1. ASSUME NEW h \in Holders, NEW v \in Versions, NEW seed \in Seeds, KeyGen(h, v, seed)
        PROVE  IInv'
    <3>1. pair' = [pair EXCEPT ![h] = pair_of(v, seed)] /\ UNCHANGED << sent, last >>
      BY <2>1 DEF KeyGen, pair_of
    <3>2. pair_of(v, seed) \in Pairs
      BY DEF Pairs
    <3>3. PairsOfSeeds'
      BY <3>1, <3>2 DEF PairsOfSeeds
    <3>4. SentEncapsulated'
      BY <3>1 DEF SentEncapsulated
    <3>5. LastDecapsulated'
      <4> SUFFICES ASSUME Called
                   PROVE  /\ last.holder \in Holders /\ HasPair(last.holder)'
                          /\ last.c \in Arriving'
                          /\ \E d \in Diffs : LET r == decaps(pair'[last.holder], last.c, d)
                                              IN last.mask = r.mask /\ last.K = r.K
        BY <3>1 DEF LastDecapsulated, Called
      <4>1. last.holder \in Holders /\ HasPair(last.holder)
        BY DEF LastDecapsulated
      <4>2. last.holder # h
        BY <2>1, <4>1 DEF KeyGen
      <4>3. pair'[last.holder] = pair[last.holder]
        BY <3>1, <4>1, <4>2 DEF PairsOfSeeds
      <4>4. HasPair(last.holder)'
        BY <3>1, <4>1, <4>3 DEF HasPair
      <4>5. Arriving' = Arriving
        BY <3>1 DEF Arriving
      <4> QED
        BY <4>1, <4>3, <4>4, <4>5 DEF LastDecapsulated
    <3> QED
      BY <3>3, <3>4, <3>5
  <2>2. ASSUME NEW h \in Holders, NEW m \in Messages, NEW salt \in Salts, Encaps(h, m, salt)
        PROVE  IInv'
    <3>1. sent' = sent \cup {result(pair[h], m, salt)} /\ UNCHANGED << pair, last >>
      BY <2>2 DEF Encaps, result
    <3>2. pair[h] \in Pairs
      BY <2>2, PairTypes DEF Encaps
    <3>3. PairsOfSeeds'
      BY <3>1 DEF PairsOfSeeds
    <3>4. SentEncapsulated'
      BY <3>1, <3>2 DEF SentEncapsulated
    <3>5. LastDecapsulated'
      <4>1. Arriving \subseteq Arriving'
        BY <3>1, ArrivingGrows
      <4> QED
        BY <3>1, <4>1 DEF LastDecapsulated, Called, HasPair
    <3> QED
      BY <3>3, <3>4, <3>5
  <2>3. ASSUME NEW h \in Holders, NEW diff \in Diffs, NEW c \in Arriving, Decaps(h, c, diff)
        PROVE  IInv'
    <3> DEFINE r == decaps(pair[h], c, diff)
    <3>1. /\ HasPair(h) /\ UNCHANGED << pair, sent >>
          /\ last' = [holder |-> h, c |-> c, mask |-> r.mask, K |-> r.K]
      BY <2>3 DEF Decaps
    <3> HIDE DEF r
    <3>2. PairsOfSeeds' /\ SentEncapsulated'
      BY <3>1 DEF PairsOfSeeds, SentEncapsulated
    <3>3. Arriving' = Arriving /\ HasPair(h)'
      BY <3>1 DEF Arriving, HasPair
    <3>4. LastDecapsulated'
      <4>1. last'.holder = h /\ last'.c = c /\ last'.mask = r.mask /\ last'.K = r.K
        BY <3>1
      <4> QED
        BY <3>1, <3>3, <4>1 DEF LastDecapsulated, r
    <3> QED
      BY <3>2, <3>4
  <2>4. CASE UNCHANGED vars
    BY <2>4 DEF vars, PairsOfSeeds, SentEncapsulated, LastDecapsulated, Called, HasPair, Arriving
  <2> QED
    BY <2>1, <2>2, <2>3, <2>4 DEF Next, NextKeyGen, NextEncaps, NextDecaps
<1> QED
  BY <1>1, <1>2, PTL DEF Spec

-----------------------------------------------------------------------------
(* The randomness of an encryption names the key, the message and the salt.   *)
LEMMA ThetaNames ==
  ASSUME NEW p, NEW m, NEW salt, NEW q, NEW n, NEW salt_n,
         theta_of(p, m, salt) = theta_of(q, n, salt_n)
  PROVE  p.ek = q.ek /\ m = n /\ salt = salt_n
  BY DEF theta_of

(* What a key decrypts of its own ciphertext is the message, and encrypted    *)
(* again it is that ciphertext.                                               *)
LEMMA DecryptsBack ==
  ASSUME NEW p \in Pairs, NEW q \in Pairs, q.ek = p.ek,
         NEW m, m \notin Undecryptable, NEW salt
  PROVE  /\ m_of(p, ciphertext(q, m, salt)) = m
         /\ Same(p, ciphertext(q, m, salt))
<1> DEFINE c == ciphertext(q, m, salt)
<1>1. c = ciphertext(p, m, salt)
  BY DEF ciphertext, theta_of
<1> HIDE DEF c
<1>2. /\ c.u.ek = p.ek /\ c.v.ek = p.ek /\ c.v.m = m
      /\ c.u.theta = c.v.theta /\ c.salt = salt
  BY <1>1 DEF ciphertext, hqc_pke_encrypt
<1>3. PICK v \in Versions, seed \in Seeds : p = pair_of(v, seed)
  BY DEF Pairs
<1>4. /\ unpack_dk(p).pke.dk[2] = xof(v, seed, 1)
      /\ p.ek = << "ek", xof(v, seed, 1) >>
  BY <1>3, UnpackDk DEF hqc_pke_keygen
<1>5. m_of(p, c) = m
  BY <1>2, <1>4 DEF m_of, hqc_pke_decrypt
<1>6. Same(p, c)
  BY <1>1, <1>2, <1>5 DEF Same, again
<1> QED
  BY <1>5, <1>6 DEF c

(* A ciphertext that arrived and is its own re-encryption was sent, whole and *)
(* unchanged, under that key.                                                 *)
LEMMA SameWasSent ==
  ASSUME SentEncapsulated, NEW p \in Pairs, NEW c \in Arriving, Same(p, c)
  PROVE  \E s \in sent : s.ek = p.ek /\ s.c = c
<1>1. PICK u \in UNION {Flipped(s.c.u) : s \in sent},
           v \in UNION {Flipped(s.c.v) : s \in sent}, salt \in Salts :
         c = [u |-> u, v |-> v, salt |-> salt]
  BY DEF Arriving
<1>2. PICK s \in sent : u \in Flipped(s.c.u)
  BY <1>1
<1>3. PICK q \in Pairs, m \in Messages, salt_s \in Salts : s = result(q, m, salt_s)
  BY DEF SentEncapsulated
<1>4. s.ek = q.ek /\ s.c = ciphertext(q, m, salt_s)
  BY <1>3, Result
<1>5. s.c.u = [ek |-> q.ek, theta |-> theta_of(q, m, salt_s), flip |-> FALSE]
  BY <1>4 DEF ciphertext, hqc_pke_encrypt
<1>6. c.u = [ek |-> p.ek, theta |-> theta_of(p, m_of(p, c), c.salt), flip |-> FALSE]
  BY DEF Same, again, ciphertext, hqc_pke_encrypt
<1>7. u = s.c.u
  <2>1. u.flip = FALSE
    BY <1>1, <1>6
  <2>2. [s.c.u EXCEPT !.flip = TRUE].flip = TRUE
    BY <1>5
  <2> QED
    BY <1>2, <2>1, <2>2 DEF Flipped
<1>8. q.ek = p.ek /\ m = m_of(p, c) /\ salt_s = c.salt
  <2>1. s.c.u = c.u
    BY <1>1, <1>7
  <2>2. s.c.u.theta = theta_of(q, m, salt_s)
    BY <1>5
  <2>3. c.u.theta = theta_of(p, m_of(p, c), c.salt)
    BY <1>6
  <2> QED
    BY <2>1, <2>2, <2>3, ThetaNames
<1>9. s.c = again(p, c)
  BY <1>4, <1>8 DEF again, ciphertext, theta_of
<1>10. again(p, c) = [u |-> again(p, c).u, v |-> again(p, c).v, salt |-> c.salt]
  BY DEF again, ciphertext
<1>11. c = [u |-> c.u, v |-> c.v, salt |-> c.salt]
  BY <1>1
<1>12. s.c = c
  BY <1>9, <1>10, <1>11 DEF Same
<1> QED
  BY <1>4, <1>8, <1>12

(* The holder of the key gets the secret of the sender: a stored key and a    *)
(* key derived again decrypt alike, and the comparison of what arrived with   *)
(* what it encrypts to again finds no difference.                             *)
THEOREM SendersSecret == Spec => []Agreement
<1>1. IInv => Agreement
  <2> SUFFICES ASSUME IInv, Called,
                      NEW s \in SentTo(last.holder, last.c), s.m \notin Undecryptable
               PROVE  last.K = s.K
    BY DEF Agreement
  <2> DEFINE p == pair[last.holder]
  <2>1. last.holder \in Holders /\ HasPair(last.holder)
    BY DEF IInv, LastDecapsulated
  <2>2. p \in Pairs
    BY <2>1, PairTypes DEF IInv
  <2>3. s \in sent /\ s.ek = p.ek /\ s.c = last.c
    BY DEF SentTo
  <2>4. PICK q \in Pairs, m \in Messages, salt \in Salts : s = result(q, m, salt)
    BY <2>3 DEF IInv, SentEncapsulated
  <2>5. /\ s.ek = q.ek /\ s.m = m /\ s.c = ciphertext(q, m, salt)
        /\ s.K = shared(q, m, salt)
    BY <2>4, Result
  <2>6. PICK d \in Diffs : last.K = decaps(p, last.c, d).K
    BY DEF IInv, LastDecapsulated
  <2> HIDE DEF p
  <2>7. m_of(p, last.c) = m /\ Same(p, last.c)
    <3>1. q.ek = p.ek /\ m \notin Undecryptable /\ last.c = ciphertext(q, m, salt)
      BY <2>3, <2>5
    <3>2. /\ m_of(p, ciphertext(q, m, salt)) = m
          /\ Same(p, ciphertext(q, m, salt))
      BY <2>2, <3>1, DecryptsBack, Zenon
    <3> QED
      BY <3>1, <3>2, Zenon
  <2>8. last.c.salt = salt
    BY <2>3, <2>5 DEF ciphertext
  <2>9. last.K = shared(p, m, salt)
    BY <2>2, <2>6, <2>7, <2>8, DecapsCases
  <2> QED
    BY <2>3, <2>5, <2>9 DEF shared
<1> QED
  BY <1>1, Invariance, PTL

(* Any ciphertext but a whole and unchanged one gives a secret with no bit of *)
(* a sender's: the mask is all ones or all zeros whatever the bytes differ    *)
(* by, and all ones only for what was sent under that key.                    *)
THEOREM ImplicitRejection == Spec => []Rejection
<1>1. IInv => Rejection
  <2> SUFFICES ASSUME IInv, Called PROVE Rejection
    BY DEF Rejection
  <2> DEFINE p == pair[last.holder]
  <2>1. last.holder \in Holders /\ HasPair(last.holder) /\ last.c \in Arriving
    BY DEF IInv, LastDecapsulated
  <2>2. p \in Pairs
    BY <2>1, PairTypes DEF IInv
  <2>3. PICK d \in Diffs : /\ last.mask = decaps(p, last.c, d).mask
                           /\ last.K = decaps(p, last.c, d).K
    BY DEF IInv, LastDecapsulated
  <2>4. p.ek = pair[last.holder].ek
    OBVIOUS
  <2> HIDE DEF p
  <2>5. last.mask \in {0, 255}
    BY <2>2, <2>3, DecapsCases
  <2>6. ASSUME SentTo(last.holder, last.c) = {}, NEW s \in sent, NEW b \in Bits
        PROVE  last.K[b] # s.K[b]
    <3>1. ~ Same(p, last.c)
      BY <2>1, <2>2, <2>4, <2>6, SameWasSent DEF IInv, SentTo
    <3>2. last.K = rejected(p, last.c)
      BY <2>2, <2>3, <3>1, DecapsCases
    <3>3. PICK q \in Pairs, m \in Messages, salt \in Salts : s = result(q, m, salt)
      BY DEF IInv, SentEncapsulated
    <3>4. s.K = shared(q, m, salt)
      BY <3>3, Result
    <3>5. last.K[b][1] = "J" /\ s.K[b][1] = "K"
      BY <3>2, <3>4 DEF rejected, shared
    <3> QED
      BY <3>5
  <2> QED
    BY <2>5, <2>6 DEF Rejection
<1> QED
  BY <1>1, Invariance, PTL

(* Two key pairs and two ciphertexts give one secret only when they are the   *)
(* same, whether accepted or rejected.                                        *)
LEMMA DecapsInjective ==
  ASSUME NEW p \in Pairs, NEW q \in Pairs, NEW c \in Arriving, NEW e \in Arriving,
         NEW d \in Diffs, NEW f \in Diffs, decaps(p, c, d).K = decaps(q, e, f).K
  PROVE  c = e /\ p = q
<1>1. 0 \in Bits
  BY DEF Bits
<1> DEFINE accepted(r, x) == shared(r, m_of(r, x), x.salt)
<1>2. /\ accepted(p, c) # rejected(q, e)
      /\ rejected(p, c) # accepted(q, e)
  <2>1. /\ accepted(p, c)[0][1] = "K" /\ rejected(q, e)[0][1] = "J"
        /\ rejected(p, c)[0][1] = "J" /\ accepted(q, e)[0][1] = "K"
    BY <1>1 DEF shared, rejected
  <2> QED
    BY <2>1
<1>3. CASE Same(p, c) /\ Same(q, e) /\ accepted(p, c) = accepted(q, e)
  <2>1. accepted(p, c)[0] = << "K", << "H", p.ek >>, m_of(p, c), c.salt >>
    BY <1>1 DEF shared
  <2>2. accepted(q, e)[0] = << "K", << "H", q.ek >>, m_of(q, e), e.salt >>
    BY <1>1 DEF shared
  <2>3. p.ek = q.ek /\ m_of(p, c) = m_of(q, e) /\ c.salt = e.salt
    BY <1>3, <2>1, <2>2
  <2>4. again(p, c) = again(q, e)
    BY <2>3 DEF again, ciphertext, theta_of
  <2>5. c.u = e.u /\ c.v = e.v
    BY <1>3, <2>4 DEF Same
  <2>6. c = [u |-> c.u, v |-> c.v, salt |-> c.salt]
    BY DEF Arriving
  <2>7. e = [u |-> e.u, v |-> e.v, salt |-> e.salt]
    BY DEF Arriving
  <2>8. c = e
    BY <2>3, <2>5, <2>6, <2>7
  <2> QED
    BY <2>3, <2>8, PairOfKey
<1>4. CASE rejected(p, c) = rejected(q, e)
  <2>1. rejected(p, c)[0] = << "J", << "H", p.ek >>, unpack_dk(p).sigma, c >>
    BY <1>1 DEF rejected
  <2>2. rejected(q, e)[0] = << "J", << "H", q.ek >>, unpack_dk(q).sigma, e >>
    BY <1>1 DEF rejected
  <2>3. c = e /\ p.ek = q.ek
    BY <1>4, <2>1, <2>2
  <2> QED
    BY <2>3, PairOfKey
<1>5. \/ Same(p, c) /\ decaps(p, c, d).K = accepted(p, c)
      \/ ~ Same(p, c) /\ decaps(p, c, d).K = rejected(p, c)
  BY DecapsCases
<1>6. \/ Same(q, e) /\ decaps(q, e, f).K = accepted(q, e)
      \/ ~ Same(q, e) /\ decaps(q, e, f).K = rejected(q, e)
  BY DecapsCases
<1> HIDE DEF accepted
<1> QED
  BY <1>2, <1>3, <1>4, <1>5, <1>6

(* A secret belongs to one key pair and one ciphertext, whatever the bytes of *)
(* differing vectors are in one call or the other.                            *)
THEOREM SecretsApart == Spec => []OneSecretPerCiphertext
<1>1. IInv => OneSecretPerCiphertext
  <2> SUFFICES ASSUME IInv, Called, NEW h \in Holders, NEW c \in Arriving,
                      NEW d \in Diffs, HasPair(h)
               PROVE  decaps(pair[h], c, d).K = last.K
                        <=> (c = last.c /\ pair[h] = pair[last.holder])
    BY DEF OneSecretPerCiphertext
  <2> DEFINE p == pair[last.holder]
             q == pair[h]
  <2>1. last.holder \in Holders /\ HasPair(last.holder) /\ last.c \in Arriving
    BY DEF IInv, LastDecapsulated
  <2>2. p \in Pairs /\ q \in Pairs
    BY <2>1, PairTypes DEF IInv
  <2>3. PICK f \in Diffs : last.K = decaps(p, last.c, f).K
    BY DEF IInv, LastDecapsulated
  <2> HIDE DEF p, q
  <2>4. ASSUME c = last.c, q = p
        PROVE  decaps(q, c, d).K = last.K
    BY <2>2, <2>3, <2>4, DecapsCases
  <2>5. ASSUME decaps(q, c, d).K = last.K
        PROVE  c = last.c /\ q = p
    BY <2>1, <2>2, <2>3, <2>5, DecapsInjective
  <2> QED
    BY <2>4, <2>5 DEF p, q
<1> QED
  BY <1>1, Invariance, PTL
=============================================================================
