------------------------------ MODULE DeviceID -------------------------------
(***************************************************************************)
(* The device identity of main/DeviceID.c on top of the trusted store: the *)
(* key pair, the certificate request and the certificate.                  *)
(*                                                                         *)
(* A key is named by the boot that generated it: mbedtls_rsa_gen_key draws *)
(* a fresh pair each time it is called, and a boot calls it once.          *)
(***************************************************************************)
EXTENDS Naturals

CONSTANTS
  MaxBoots,    \* bound: the number of times the chip starts
  Orders,      \* the production orders, each with the names (CN, O, SN) of one subject
  NoFile, Torn, FlashFaults,
  CryptoFaults \* may an mbedtls call fail (entropy, memory)

CertFile == "DevID.crt"
KeyFile == "DevID.key"
Names == {KeyFile, CertFile}

Keys == 1 .. MaxBoots

\* A subject is the orders whose names it has: none for the empty one.
Subjects == SUBSET Orders

\* A certificate request, and a certificate a CA issued for one: both bind a
\* subject to a public key.
CSRs == [key : Keys, subject : Subjects]
Certs == CSRs
Mangled == [key |-> 0, subject |-> {}]    \* a text that is no certificate

\* What is handed to TPwrite: mbedtls_pk_write_key_pem of a key, and
\* mbedtls_pem_write_buffer around what is said to be a certificate.
KeyPem(k) == [pem |-> "key", key |-> k, subject |-> {}]
CertPem(c) == [pem |-> "certificate", key |-> c.key, subject |-> c.subject]
Contents == [pem : {"key", "certificate"}, key : Keys \cup {0}, subject : Subjects]

ASSUME DeviceIDAssumption ==
  /\ MaxBoots \in Nat \ {0}
  /\ NoFile \notin Contents
  /\ Torn \notin Contents
  /\ NoFile # Torn
  /\ FlashFaults \in BOOLEAN
  /\ CryptoFaults \in BOOLEAN

VARIABLES
  files, mounted, gINT,
  gDevIDopen,    \* RAM: the crypto contexts are initialised
  gDevIDKeyGen,  \* RAM: the entropy context is initialised
  pk             \* RAM: the generated key pair, 0 before there is one

INSTANCE TrustPlatform

storeVars == << files, mounted, gINT >>
devVars == << gDevIDopen, gDevIDKeyGen, pk >>

DevTypeOK ==
  /\ gDevIDopen \in BOOLEAN
  /\ gDevIDKeyGen \in BOOLEAN
  /\ pk \in Keys \cup {0}

DevInit0 ==
  /\ gDevIDopen = FALSE
  /\ gDevIDKeyGen = FALSE
  /\ pk = 0

DevRestart ==
  /\ gDevIDopen' = FALSE
  /\ gDevIDKeyGen' = FALSE
  /\ pk' = 0

------------------------------------------------------------------------------
\* A changed DeviceID_open, which skips the derivation of the system key.
OpenWithoutKey ==
  /\ gDevIDopen' = TRUE
  /\ pk' = 0
  /\ UNCHANGED << gDevIDKeyGen, files, mounted, gINT >>

\* DeviceID_open after TPinit returned TP_OK: the contexts are initialised.
DeviceID_opened ==
  /\ TPinitDerive
  /\ gDevIDopen' = TRUE
  /\ pk' = 0
  /\ UNCHANGED gDevIDKeyGen

\* DeviceID_genKey up to the key pair in RAM: seed, mbedtls_pk_setup, generate.
GenKeyPair(k) ==
  /\ gDevIDKeyGen' = TRUE
  /\ pk' = k
  /\ UNCHANGED gDevIDopen

\* One of those calls, or mbedtls_pk_write_key_pem, fails: DEVID_ERR_KEYGEN.
GenKeyFails(k) ==
  /\ CryptoFaults
  /\ gDevIDKeyGen' = TRUE
  /\ pk' \in {pk, k}
  /\ UNCHANGED gDevIDopen

\* DeviceID_genCSR(buf, subject): every result, with the caller's buffer after it.
\* The key is read back from the store, a truncated PEM does not parse, and a failure
\* of mbedtls_x509write_csr_pem is logged while ret keeps the value of the parse: 0.
DeviceID_genCSR(buf, subject) ==
  LET failed == [ret |-> "DEVID_ERR_CSRGEN", buf |-> buf]
      parsed(k) == {[ret |-> "DEVID_OK", buf |-> [key |-> k, subject |-> subject]]}
                   \cup {r \in {[ret |-> "DEVID_OK", buf |-> buf]} : CryptoFaults}
  IN  UNION { IF r.ret = "TP_OK" /\ r.data # Torn THEN parsed(r.data.key) ELSE {failed}
              : r \in TPread(KeyFile) }

\* DeviceID_storeCert(c): the two steps of TPwrite on the PEM of c.  It fails before the
\* first (mbedtls_pem_write_buffer, fopen) or not at all.
\* (A changed one takes the file name of the key.)
StoreCertOpenKeyFile == TPwriteOpen(KeyFile)
StoreCertOpen == TPwriteOpen(CertFile)
StoreCertClose(c) == TPwriteClose(CertFile, CertPem(c))
=============================================================================
