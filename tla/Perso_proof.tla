---------------------------- MODULE Perso_proof ------------------------------
(***************************************************************************)
(* What module Perso promises, for every number of starts, every set of    *)
(* connections and orders, and whichever faults may happen.                *)
(***************************************************************************)
EXTENDS Perso, TLAPS

USE DEF storeVars, devVars, radioVars, nvsVars, bufferVars, serverVars

\* What an answer or the loss of one does to a connection.
LEMMA AnswerEffect ==
  ASSUME TypeOK, NEW c \in Conns, NEW says \in Says, NEW csr \in CSRs \cup {NoArg},
         NEW body \in Bodies, Answer(c, says, csr, body)
  PROVE  /\ conns' \in [Conns -> Conn]
         /\ \A d \in Conns : d # c => conns'[d] = conns[d]
         /\ conns'[c].dev = "none" /\ conns'[c].cli = "answer"
         /\ conns'[c].arg = conns[c].arg /\ conns'[c].body = body
         /\ conns'[c].says = says /\ conns'[c].csr = csr /\ conns'[c].at = boot
<1> DEFINE r == [conns[c] EXCEPT !.dev = "none", !.cli = "answer", !.says = says,
                               !.csr = csr, !.body = body, !.at = boot]
<1>1. conns \in [Conns -> Conn] /\ conns[c] \in Conn /\ boot \in 0 .. MaxBoots
  BY DeviceIDAssumption DEF TypeOK, PersoTypeOK
<1>2. /\ r \in Conn
      /\ r.dev = "none" /\ r.cli = "answer"
      /\ r.arg = conns[c].arg /\ r.body = body
      /\ r.says = says /\ r.csr = csr /\ r.at = boot
  BY <1>1 DEF Conn
<1>3. conns' = [conns EXCEPT ![c] = r]
  BY DEF Answer
<1> HIDE DEF r
<1> QED
  BY <1>1, <1>2, <1>3

\* The same when the client hears nothing.
LEMMA UnansweredEffect ==
  ASSUME TypeOK, NEW c \in Conns, Unanswered(c)
  PROVE  /\ conns' \in [Conns -> Conn]
         /\ \A d \in Conns : d # c => conns'[d] = conns[d]
         /\ conns'[c].dev = "none" /\ conns'[c].cli = "error" /\ conns'[c].at = 0
<1>1. GivenUp \in Conn /\ GivenUp.dev = "none" /\ GivenUp.cli = "error" /\ GivenUp.at = 0
  BY DeviceIDAssumption DEF GivenUp, IdleConn, Conn, Kinds, Args, Bodies, Says
<1> QED
  BY <1>1 DEF TypeOK, PersoTypeOK, Unanswered

\* Whatever the handler has for a certificate, its PEM is something the store can hold.
LEMMA TextsAreContents ==
  ASSUME NEW arg PROVE \A text \in Texts(arg) : CertPem(text) \in Contents
  BY DEF Texts, Mangled, CertPem, Certs, CSRs, Contents, Subjects

\* A device that leaves the factory satisfies the invariant.
LEMMA InitIInv == Init => IInv
<1> SUFFICES ASSUME Init PROVE IInv
  OBVIOUS
<1> USE DeviceIDAssumption, PersoAssumption DEF Init
<1>1. TPTypeOK /\ DevTypeOK
  BY DEF TPTypeOK, DevTypeOK, TPInit0, DevInit0
<1>2. PersoTypeOK
  <2>1. IdleConn \in Conn
    BY DEF IdleConn, Conn, Kinds, Args, Bodies, Says
  <2>2. boot \in 1 .. MaxBoots
    OBVIOUS
  <2>3. conns \in [Conns -> Conn]
    BY <2>1
  <2> QED
    BY <2>2, <2>3 DEF PersoTypeOK, LinkTypeOK, LinkInit, Links, NVS, MainSteps, ServerSteps
<1>3. ConnInv /\ MainInv /\ ServerInv /\ StatusInv /\ AnswerInv
  BY DEF IdleConn, ConnInv, MainInv, ServerInv, StatusInv, AnswerInv, FromFormat, FromGenKey,
     FromWriteKey, FromWifi
<1> QED
  BY <1>1, <1>2, <1>3 DEF IInv, TypeOK

------------------------------------------------------------------------------
\* Every step of the two tasks, of a client, of the radio and of the power supply keeps
\* the invariant.
THEOREM NextIInv == IInv /\ [Next]_vars => IInv'
<1> SUFFICES ASSUME IInv, [Next]_vars PROVE IInv'
  OBVIOUS
<1> USE DeviceIDAssumption, PersoAssumption DEF IInv
<1>1. CASE ReadStatus
  <2>1. TypeOK'
    <3>1. nvsSet' \in NVS /\ gPERSO' \in BOOLEAN /\ pc' \in MainSteps
      BY <1>1 DEF ReadStatus, MainGoes, NVS, MainSteps, TypeOK, PersoTypeOK
    <3>2. TPTypeOK' /\ DevTypeOK'
      BY <1>1 DEF ReadStatus, TypeOK, TPTypeOK, DevTypeOK
    <3>3. PersoTypeOK'
      BY <1>1, <3>1 DEF ReadStatus, TypeOK, PersoTypeOK, LinkTypeOK
    <3> QED
      BY <3>2, <3>3 DEF TypeOK
  <2>2. MainInv'
    BY <1>1 DEF ReadStatus, MainGoes, MainInv, FromFormat, FromGenKey, FromWriteKey,
       FromWifi
  <2>3. ConnInv' /\ ServerInv'
    BY <1>1 DEF ReadStatus, MainGoes, ConnInv, MainInv, ServerInv
  <2>4. StatusInv' /\ AnswerInv'
    BY <1>1 DEF ReadStatus, MainGoes, MainInv, StatusInv, AnswerInv, FromFormat,
       FromGenKey, FromWriteKey, FromWifi
  <2> QED
    BY <2>1, <2>2, <2>3, <2>4 DEF IInv
<1>2. CASE Register
  <2>1. TypeOK'
    BY <1>2 DEF Register, MainGoes, TPinitRegister, MainSteps, TypeOK, TPTypeOK,
       DevTypeOK, PersoTypeOK, LinkTypeOK
  <2>2. MainInv'
    BY <1>2 DEF Register, MainGoes, TPinitRegister, MainInv, FromFormat, FromGenKey,
       FromWriteKey, FromWifi
  <2>3. ConnInv' /\ ServerInv'
    BY <1>2 DEF Register, MainGoes, TPinitRegister, ConnInv, MainInv, ServerInv
  <2>4. StatusInv' /\ AnswerInv'
    BY <1>2 DEF Register, MainGoes, TPinitRegister, MainInv, StatusInv, AnswerInv,
       FromFormat, FromGenKey, FromWriteKey, FromWifi
  <2> QED
    BY <2>1, <2>2, <2>3, <2>4 DEF IInv
<1>3. CASE Format
  <2>1. TypeOK'
    BY <1>3 DEF Format, MainGoes, TPinitFormat, MainSteps, TypeOK, TPTypeOK, DevTypeOK,
       PersoTypeOK, LinkTypeOK
  <2>2. MainInv'
    BY <1>3 DEF Format, MainGoes, TPinitFormat, TypeOK, TPTypeOK, Names, KeyFile,
       CertFile, MainInv, FromFormat, FromGenKey, FromWriteKey, FromWifi
  <2>3. ConnInv' /\ ServerInv'
    BY <1>3 DEF Format, MainGoes, TPinitFormat, ConnInv, MainInv, ServerInv
  <2>4. StatusInv' /\ AnswerInv'
    BY <1>3 DEF Format, MainGoes, TPinitFormat, MainInv, StatusInv, AnswerInv,
       FromFormat, FromGenKey, FromWriteKey, FromWifi
  <2> QED
    BY <2>1, <2>2, <2>3, <2>4 DEF IInv
<1>4. CASE Open
  <2>1. TypeOK'
    BY <1>4 DEF Open, MainGoes, DeviceID_opened, TPinitDerive, MainSteps, TypeOK,
       TPTypeOK, DevTypeOK, PersoTypeOK, LinkTypeOK
  <2>2. MainInv'
    BY <1>4 DEF Open, MainGoes, DeviceID_opened, TPinitDerive, MainInv, FromFormat,
       FromGenKey, FromWriteKey, FromWifi
  <2>3. ConnInv' /\ ServerInv'
    BY <1>4 DEF Open, MainGoes, DeviceID_opened, TPinitDerive, ConnInv, MainInv,
       ServerInv
  <2>4. StatusInv' /\ AnswerInv'
    BY <1>4 DEF Open, MainGoes, DeviceID_opened, TPinitDerive, MainInv, StatusInv,
       AnswerInv, FromFormat, FromGenKey, FromWriteKey, FromWifi
  <2> QED
    BY <2>1, <2>2, <2>3, <2>4 DEF IInv
<1>5. CASE GenKey
  <2>1. TypeOK'
    BY <1>5 DEF GenKey, MainGoes, GenKeyPair, GenKeyFails, MainSteps, Keys, TypeOK,
       TPTypeOK, DevTypeOK, PersoTypeOK, LinkTypeOK
  <2>2. MainInv'
    BY <1>5 DEF GenKey, MainGoes, GenKeyPair, GenKeyFails, MainInv, FromFormat,
       FromGenKey, FromWriteKey, FromWifi, TypeOK, PersoTypeOK
  <2>3. ConnInv' /\ ServerInv'
    BY <1>5 DEF GenKey, MainGoes, GenKeyPair, GenKeyFails, ConnInv, MainInv, ServerInv
  <2>4. StatusInv' /\ AnswerInv'
    BY <1>5 DEF GenKey, MainGoes, GenKeyPair, GenKeyFails, MainInv, StatusInv,
       AnswerInv, FromFormat, FromGenKey, FromWriteKey, FromWifi
  <2> QED
    BY <2>1, <2>2, <2>3, <2>4 DEF IInv
<1>6. CASE WriteKey
  <2>1. TypeOK'
    BY <1>6 DEF WriteKey, MainGoes, TPwriteOpen, TPwriteFails, MainSteps, TypeOK,
       TPTypeOK, DevTypeOK, PersoTypeOK, LinkTypeOK
  <2>2. MainInv'
    BY <1>6 DEF WriteKey, MainGoes, TPwriteOpen, TPwriteFails, TypeOK, TPTypeOK, Names,
       KeyFile, CertFile, MainInv, FromFormat, FromGenKey, FromWriteKey, FromWifi
  <2>3. ConnInv' /\ ServerInv'
    BY <1>6 DEF WriteKey, MainGoes, TPwriteOpen, TPwriteFails, ConnInv, MainInv,
       ServerInv
  <2>4. StatusInv' /\ AnswerInv'
    BY <1>6 DEF WriteKey, MainGoes, TPwriteOpen, TPwriteFails, MainInv, StatusInv,
       AnswerInv, FromFormat, FromGenKey, FromWriteKey, FromWifi
  <2> QED
    BY <2>1, <2>2, <2>3, <2>4 DEF IInv
<1>7. CASE CloseKey
  <2>1. TypeOK'
    BY <1>7 DEF CloseKey, MainGoes, TPwriteClose, MainSteps, MainInv, FromFormat,
       FromGenKey, FromWriteKey, FromWifi, KeyPem, Contents, Subjects, Keys, TypeOK,
       TPTypeOK, DevTypeOK, PersoTypeOK, LinkTypeOK
  <2>2. MainInv'
    BY <1>7 DEF CloseKey, MainGoes, TPwriteClose, TypeOK, TPTypeOK, Names, KeyFile,
       CertFile, MainInv, FromFormat, FromGenKey, FromWriteKey, FromWifi
  <2>3. ConnInv' /\ ServerInv'
    BY <1>7 DEF CloseKey, MainGoes, TPwriteClose, ConnInv, MainInv, ServerInv
  <2>4. StatusInv' /\ AnswerInv'
    BY <1>7 DEF CloseKey, MainGoes, TPwriteClose, MainInv, StatusInv, AnswerInv,
       FromFormat, FromGenKey, FromWriteKey, FromWifi
  <2> QED
    BY <2>1, <2>2, <2>3, <2>4 DEF IInv
<1>8. CASE StartWifi
  <2>1. TypeOK'
    BY <1>8 DEF StartWifi, MainGoes, LinkStart, MainSteps, Links, TypeOK, TPTypeOK,
       DevTypeOK, PersoTypeOK, LinkTypeOK
  <2>2. MainInv'
    BY <1>8 DEF StartWifi, MainGoes, LinkStart, MainInv, FromFormat, FromGenKey,
       FromWriteKey, FromWifi
  <2>3. ConnInv' /\ ServerInv'
    BY <1>8 DEF StartWifi, MainGoes, LinkStart, ConnInv, MainInv, ServerInv
  <2>4. StatusInv' /\ AnswerInv'
    BY <1>8 DEF StartWifi, MainGoes, LinkStart, MainInv, StatusInv, AnswerInv,
       FromFormat, FromGenKey, FromWriteKey, FromWifi
  <2> QED
    BY <2>1, <2>2, <2>3, <2>4 DEF IInv
<1>9. CASE WifiReturns
  <2>1. TypeOK'
    BY <1>9 DEF WifiReturns, MainGoes, MainSteps, TypeOK, TPTypeOK, DevTypeOK,
       PersoTypeOK, LinkTypeOK
  <2>2. MainInv'
    BY <1>9 DEF WifiReturns, MainGoes, MainInv, FromFormat, FromGenKey, FromWriteKey,
       FromWifi
  <2>3. ConnInv' /\ ServerInv'
    BY <1>9 DEF WifiReturns, MainGoes, ConnInv, MainInv, ServerInv
  <2>4. StatusInv' /\ AnswerInv'
    BY <1>9 DEF WifiReturns, MainGoes, MainInv, StatusInv, AnswerInv, FromFormat,
       FromGenKey, FromWriteKey, FromWifi
  <2> QED
    BY <2>1, <2>2, <2>3, <2>4 DEF IInv
<1>10. CASE StartServer
  <2>1. TypeOK'
    BY <1>10 DEF StartServer, MainGoes, MainSteps, ServerSteps, TypeOK, TPTypeOK,
       DevTypeOK, PersoTypeOK, LinkTypeOK
  <2>2. MainInv'
    BY <1>10 DEF StartServer, MainGoes, MainInv, FromFormat, FromGenKey, FromWriteKey,
       FromWifi
  <2>3. ConnInv' /\ ServerInv'
    BY <1>10 DEF StartServer, MainGoes, ConnInv, MainInv, ServerInv
  <2>4. StatusInv' /\ AnswerInv'
    BY <1>10 DEF StartServer, MainGoes, MainInv, StatusInv, AnswerInv, FromFormat,
       FromGenKey, FromWriteKey, FromWifi
  <2> QED
    BY <2>1, <2>2, <2>3, <2>4 DEF IInv
<1>11. CASE CloseCert
  <2>1. \A text \in Texts(conns[serving].arg) : CertPem(text) \in Contents
    BY TextsAreContents
  <2>2. TypeOK'
    BY <1>11, <2>1 DEF CloseCert, StoreCertClose, TPwriteClose, ServerSteps, TypeOK,
       TPTypeOK, DevTypeOK, PersoTypeOK, LinkTypeOK
  <2>3. ConnInv' /\ MainInv'
    BY <1>11 DEF CloseCert, StoreCertClose, TPwriteClose, ConnInv, MainInv, FromFormat,
       FromGenKey, FromWriteKey, FromWifi, TypeOK, TPTypeOK, Names, KeyFile, CertFile
  <2>4. ServerInv' /\ StatusInv'
    BY <1>11, <2>1 DEF CloseCert, StoreCertClose, TPwriteClose, ServerInv, StatusInv,
       Whole, TypeOK, TPTypeOK, Names, KeyFile, CertFile
  <2>5. AnswerInv'
    BY <1>11, <2>1 DEF CloseCert, StoreCertClose, TPwriteClose, AnswerInv, Whole,
       TypeOK, TPTypeOK, Names, KeyFile, CertFile
  <2> QED
    BY <2>1, <2>2, <2>3, <2>4, <2>5 DEF IInv
<1>12. CASE SendInit
  <2> USE <1>12 DEF SendInit
  <2>1. serving \in Conns /\ pc = "spin"
    BY DEF ServerInv, MainInv
  <2>2. CASE Answer(serving, "Init", NoArg, "whole") /\ httpd' = "setStatus"
    <3>1. TypeOK'
      BY <2>1, <2>2, AnswerEffect DEF Bodies, Says, ServerSteps, TypeOK, TPTypeOK, DevTypeOK,
         PersoTypeOK, LinkTypeOK
    <3>2. ConnInv' /\ MainInv'
      BY <2>1, <2>2, AnswerEffect DEF Bodies, Says, ConnInv, MainInv, TypeOK, PersoTypeOK
    <3>3. ServerInv' /\ StatusInv'
      BY <2>2 DEF ServerInv, StatusInv, Whole
    <3>4. AnswerInv'
      BY <2>1, <2>2, AnswerEffect DEF Bodies, Says, ServerInv, AnswerInv, Whole
    <3> QED
      BY <3>1, <3>2, <3>3, <3>4
  <2>3. CASE Unanswered(serving) /\ httpd' \in {"setStatus", "idle"}
    <3>1. TypeOK'
      BY <2>1, <2>3, UnansweredEffect DEF ServerSteps, TypeOK, TPTypeOK, DevTypeOK,
         PersoTypeOK, LinkTypeOK
    <3>2. ConnInv' /\ MainInv'
      BY <2>1, <2>3, UnansweredEffect DEF ConnInv, MainInv, TypeOK, PersoTypeOK
    <3>3. ServerInv' /\ StatusInv'
      BY <2>3 DEF ServerInv, StatusInv, Whole
    <3>4. AnswerInv'
      BY <2>1, <2>3, UnansweredEffect DEF AnswerInv, Whole
    <3> QED
      BY <3>1, <3>2, <3>3, <3>4
  <2> QED
    BY <2>2, <2>3 DEF Respond
<1>13. CASE SetStatus
  <2>1. TypeOK'
    <3>1. nvsSet' \in NVS /\ gPERSO' \in BOOLEAN /\ httpd' \in ServerSteps
      BY <1>13 DEF SetStatus, ServerSteps, NVS, TypeOK, PersoTypeOK
    <3>2. TPTypeOK' /\ DevTypeOK'
      BY <1>13 DEF SetStatus, TypeOK, TPTypeOK, DevTypeOK
    <3>3. PersoTypeOK'
      BY <1>13, <3>1 DEF SetStatus, TypeOK, PersoTypeOK, LinkTypeOK
    <3> QED
      BY <3>2, <3>3 DEF TypeOK
  <2>2. ConnInv' /\ MainInv'
    BY <1>13 DEF SetStatus, ConnInv, MainInv
  <2>3. ServerInv'
    BY <1>13 DEF SetStatus, ServerInv, Whole
  <2>4. StatusInv'
    BY <1>13 DEF SetStatus, MainInv, StatusInv, FromFormat, FromGenKey, FromWriteKey,
       FromWifi
  <2>5. AnswerInv'
    BY <1>13 DEF SetStatus, MainInv, StatusInv, AnswerInv, Whole, FromFormat,
       FromGenKey, FromWriteKey, FromWifi
  <2> QED
    BY <2>1, <2>2, <2>3, <2>4, <2>5 DEF IInv
<1>14. ASSUME NEW c \in Conns, Status(c) PROVE IInv'
  <2> USE <1>14 DEF Status, Takes
  <2>1. CASE Answer(c, "Ready", NoArg, "whole")
    <3>1. TypeOK' /\ ConnInv'
      BY <2>1, AnswerEffect DEF Bodies, Says, ConnInv, TypeOK, TPTypeOK, DevTypeOK, PersoTypeOK,
         LinkTypeOK
    <3>2. MainInv' /\ ServerInv' /\ StatusInv'
      BY DEF MainInv, ServerInv, StatusInv, Whole
    <3>3. AnswerInv'
      BY <2>1, AnswerEffect DEF Bodies, Says, MainInv, AnswerInv, Whole
    <3> QED
      BY <3>1, <3>2, <3>3
  <2>2. CASE Unanswered(c)
    <3>1. TypeOK' /\ ConnInv'
      BY <2>2, UnansweredEffect DEF ConnInv, TypeOK, TPTypeOK, DevTypeOK, PersoTypeOK, LinkTypeOK
    <3>2. MainInv' /\ ServerInv' /\ StatusInv'
      BY DEF MainInv, ServerInv, StatusInv, Whole
    <3>3. AnswerInv'
      BY <2>2, UnansweredEffect DEF AnswerInv, Whole
    <3> QED
      BY <3>1, <3>2, <3>3
  <2> QED
    BY <2>1, <2>2 DEF Respond
<1>15. ASSUME NEW c \in Conns, GenCSR(c) PROVE IInv'
  <2> USE <1>15 DEF Takes
  <2>1. pc = "spin" /\ httpd = "idle"
    BY DEF GenCSR, MainInv
  <2>2. /\ gCertBuf' \in CSRs \cup {NoArg}
        /\ gCertBuf' # NoArg => gCertBuf'.key = boot /\ files[KeyFile] = KeyPem(boot)
    <3>1. CASE UNCHANGED gCertBuf
      BY <3>1 DEF AnswerInv, TypeOK, PersoTypeOK
    <3>2. ASSUME NEW subject \in Subjects, NEW r \in DeviceID_genCSR(gCertBuf, subject),
                 gCertBuf' = r.buf
          PROVE  <2>2!1 /\ <2>2!2
      <4>1. files[KeyFile] \in {KeyPem(boot), Torn}
        BY <2>1 DEF MainInv, FromWifi, FromWriteKey, FromGenKey, FromFormat
      <4>2. \/ r.buf = gCertBuf
            \/ files[KeyFile] = KeyPem(boot) /\ r.buf = [key |-> boot, subject |-> subject]
        <5>1. \A q \in TPread(KeyFile) : q.ret = "TP_OK" => q.data = files[KeyFile]
          BY DEF TPread
        <5>2. \/ r.buf = gCertBuf
              \/ /\ files[KeyFile] # Torn
                 /\ r.buf = [key |-> files[KeyFile].key, subject |-> subject]
          BY <3>2, <5>1 DEF DeviceID_genCSR
        <5>3. KeyPem(boot).key = boot
          BY DEF KeyPem
        <5> QED
          BY <4>1, <5>2, <5>3
      <4> QED
        BY <3>2, <4>2 DEF AnswerInv, TypeOK, PersoTypeOK, CSRs, Keys
    <3>3. \A body \in Bodies : Found(conns[c].arg, body) \subseteq Subjects
      BY DEF Found, Named, Subjects, TypeOK, PersoTypeOK
    <3> QED
      BY <3>1, <3>2, <3>3 DEF GenCSR
  <2>3. \/ \E says \in {"408", "CSR"}, csr \in {NoArg, gCertBuf'}, body \in Bodies :
             Answer(c, says, csr, body)
        \/ Unanswered(c)
    BY DEF GenCSR, RecvFails, Respond, Bodies
  <2>4. UNCHANGED << files, mounted, gINT, gDevIDopen, gDevIDKeyGen, pk, boot, nvs, nvsSet, pc,
                     gPERSO, httpd, serving, link, bits >>
    BY DEF GenCSR
  <2>5. leftover' \subseteq Orders
    BY DEF GenCSR, Named, TypeOK, PersoTypeOK
  <2>6. MainInv' /\ ServerInv' /\ StatusInv'
    BY <2>1, <2>4 DEF MainInv, ServerInv, StatusInv, Whole
  <2>7. ASSUME NEW says \in {"408", "CSR"}, NEW csr \in {NoArg, gCertBuf'},
               NEW body \in Bodies, Answer(c, says, csr, body)
        PROVE  TypeOK' /\ ConnInv' /\ AnswerInv'
    <3>1. says \in Says /\ csr \in CSRs \cup {NoArg}
      BY <2>2 DEF Bodies, Says
    <3>2. TypeOK' /\ ConnInv'
      BY <2>2, <2>4, <2>5, <2>7, <3>1, AnswerEffect DEF Bodies, ConnInv, TypeOK, TPTypeOK,
         DevTypeOK, PersoTypeOK, LinkTypeOK
    <3>3. AnswerInv'
      BY <2>1, <2>2, <2>4, <2>7, <3>1, AnswerEffect DEF Bodies, AnswerInv, Whole
    <3> QED
      BY <3>2, <3>3
  <2>8. ASSUME Unanswered(c)
        PROVE  TypeOK' /\ ConnInv' /\ AnswerInv'
    <3>1. TypeOK' /\ ConnInv'
      BY <2>2, <2>4, <2>5, <2>8, UnansweredEffect DEF ConnInv, TypeOK, TPTypeOK, DevTypeOK,
         PersoTypeOK, LinkTypeOK
    <3>2. AnswerInv'
      BY <2>1, <2>2, <2>4, <2>8, UnansweredEffect DEF AnswerInv, Whole
    <3> QED
      BY <3>1, <3>2
  <2> QED
    BY <2>3, <2>6, <2>7, <2>8
<1>16. ASSUME NEW c \in Conns, DevIDfinal(c) PROVE IInv'
  <2> USE <1>16 DEF DevIDfinal, Takes
  <2>1. pc = "spin"
    BY DEF MainInv
  <2>2. CASE Answer(c, "408", NoArg, "whole") /\ UNCHANGED << storeVars, httpd, serving >>
    <3>1. TypeOK' /\ ConnInv'
      BY <2>2, AnswerEffect DEF Bodies, Says, ConnInv, TypeOK, TPTypeOK, DevTypeOK, PersoTypeOK,
         LinkTypeOK
    <3>2. MainInv' /\ ServerInv' /\ StatusInv'
      BY <2>2 DEF MainInv, ServerInv, StatusInv, Whole
    <3>3. AnswerInv'
      BY <2>1, <2>2, AnswerEffect DEF Bodies, Says, AnswerInv, Whole
    <3> QED
      BY <3>1, <3>2, <3>3
  <2>3. CASE Unanswered(c) /\ UNCHANGED << storeVars, httpd, serving >>
    <3>1. TypeOK' /\ ConnInv'
      BY <2>3, UnansweredEffect DEF ConnInv, TypeOK, TPTypeOK, DevTypeOK, PersoTypeOK, LinkTypeOK
    <3>2. MainInv' /\ ServerInv' /\ StatusInv'
      BY <2>3 DEF MainInv, ServerInv, StatusInv, Whole
    <3>3. AnswerInv'
      BY <2>3, UnansweredEffect DEF AnswerInv, Whole
    <3> QED
      BY <3>1, <3>2, <3>3
  <2>4. CASE /\ StoreCertOpen /\ httpd' = "closeCert"
             /\ serving' = c /\ UNCHANGED conns
    <3> USE <2>4 DEF StoreCertOpen, TPwriteOpen, Names, KeyFile, CertFile
    <3>1. TypeOK' /\ ConnInv'
      BY DEF ServerSteps, ConnInv, TypeOK, TPTypeOK, DevTypeOK, PersoTypeOK, LinkTypeOK
    <3>2. MainInv'
      BY <2>1 DEF MainInv, FromFormat, FromGenKey, FromWriteKey, FromWifi, TypeOK, TPTypeOK
    <3>3. ServerInv' /\ StatusInv'
      BY DEF ConnInv, ServerInv, StatusInv
    <3>4. AnswerInv'
      BY DEF AnswerInv, TypeOK, TPTypeOK
    <3> QED
      BY <3>1, <3>2, <3>3, <3>4
  <2> QED
    BY <2>2, <2>3, <2>4 DEF RecvFails
<1>17. ASSUME NEW c \in Conns, NEW kind \in Kinds, NEW arg \in ArgsOf(kind),
             Send(c, kind, arg)
      PROVE  IInv'
  <2> DEFINE sent == [IdleConn EXCEPT !.dev = "pending", !.cli = "wait", !.kind = kind,
                                      !.arg = arg]
  <2>1. arg \in Args
    BY <1>17 DEF ArgsOf, Args, Kinds
  <2>2. PICK r \in {sent, GivenUp} : conns' = [conns EXCEPT ![c] = r]
    BY <1>17 DEF Send
  <2>3. /\ r \in Conn
        /\ r.cli \in {"wait", "error"} /\ r.at = 0
    <3>1. CASE r = sent
      <4>1. r = [dev |-> "pending", cli |-> "wait", kind |-> kind, arg |-> arg,
                 body |-> "whole", says |-> "nothing", csr |-> NoArg, at |-> 0]
        BY <3>1 DEF IdleConn
      <4> HIDE DEF sent
      <4> QED
        BY <2>1, <4>1 DEF Conn, Bodies, Says
    <3>2. CASE r = GivenUp
      BY <3>2 DEF GivenUp, IdleConn, Conn, Kinds, Args, Bodies, Says
    <3> QED
      BY <2>2, <3>1, <3>2
  <2>4. UNCHANGED << files, mounted, gINT, gDevIDopen, gDevIDKeyGen, pk, boot, nvs, nvsSet, pc,
                     gPERSO, gCertBuf, leftover, httpd, serving, link, bits >>
    BY <1>17 DEF Send
  <2> HIDE DEF sent
  <2>5. TypeOK' /\ ConnInv'
    BY <2>2, <2>3, <2>4 DEF ConnInv, TypeOK, TPTypeOK, DevTypeOK, PersoTypeOK, LinkTypeOK
  <2>6. MainInv' /\ StatusInv'
    BY <2>4 DEF MainInv, StatusInv
  <2>7. ServerInv'
    <3>1. httpd \in {"closeCert", "respond"} => serving # c
      BY <1>17 DEF Send, ConnInv, ServerInv
    <3> QED
      BY <2>2, <2>4, <3>1 DEF ServerInv, Whole, TypeOK, PersoTypeOK
  <2>8. AnswerInv'
    BY <2>2, <2>3, <2>4 DEF AnswerInv, Whole, TypeOK, PersoTypeOK
  <2> QED
    BY <2>5, <2>6, <2>7, <2>8
<1>18. ASSUME NEW c \in Conns, GiveUp(c) PROVE IInv'
  <2> USE <1>18 DEF GiveUp
  <2>1. TypeOK' /\ ConnInv'
    <3>1. conns' \in [Conns -> Conn] /\ ConnInv'
      BY DEF ConnInv, TypeOK, PersoTypeOK, Conn
    <3> QED
      BY <3>1 DEF TypeOK, TPTypeOK, DevTypeOK, PersoTypeOK, LinkTypeOK
  <2>2. MainInv' /\ StatusInv'
    BY DEF MainInv, StatusInv
  <2>3. ServerInv'
    BY DEF ServerInv, Whole, TypeOK, PersoTypeOK, Conn
  <2>4. AnswerInv'
    BY DEF AnswerInv, Whole, TypeOK, PersoTypeOK, Conn
  <2> QED
    BY <2>1, <2>2, <2>3, <2>4
<1>19. ASSUME NEW c \in Conns, Done(c) PROVE IInv'
  <2> USE <1>19 DEF Done, IdleConn
  <2>1. TypeOK' /\ ConnInv'
    BY DEF Conn, Kinds, Args, Bodies, Says, ConnInv, TypeOK, TPTypeOK, DevTypeOK,
       PersoTypeOK, LinkTypeOK
  <2>2. MainInv' /\ StatusInv'
    BY DEF MainInv, StatusInv
  <2>3. ServerInv'
    BY DEF ServerInv, Whole, TypeOK, PersoTypeOK, Conn
  <2>4. AnswerInv'
    BY DEF AnswerInv, Whole, TypeOK, PersoTypeOK, Conn
  <2> QED
    BY <2>1, <2>2, <2>3, <2>4
<1>20. CASE Radio
  <2>1. link' \in Links /\ bits' \in BOOLEAN
    BY <1>20 DEF Radio, LinkChanges, LinkJoin, LinkDrop, LinkTold, LinkGiveUp, Links,
                 TypeOK, TPTypeOK, DevTypeOK, PersoTypeOK, LinkTypeOK
  <2>2. TypeOK' /\ ConnInv'
    BY <1>20, <2>1 DEF Radio, ConnInv, TypeOK, TPTypeOK, DevTypeOK, PersoTypeOK, LinkTypeOK
  <2>3. MainInv' /\ ServerInv' /\ StatusInv' /\ AnswerInv'
    BY <1>20 DEF Radio, MainInv, ServerInv, StatusInv, AnswerInv, Whole
  <2> QED
    BY <2>2, <2>3
<1>21. CASE Restart
  <2> USE <1>21 DEF Restart
  <2>1. /\ conns' \in [Conns -> Conn]
        /\ \A c \in Conns : conns'[c] \in {conns[c], GivenUp}
    <3>1. GivenUp \in Conn
      BY DEF GivenUp, IdleConn, Conn, Kinds, Args, Bodies, Says
    <3> QED
      BY <3>1 DEF TypeOK, PersoTypeOK
  <2>2. GivenUp.cli = "error" /\ GivenUp.dev = "none" /\ GivenUp.at = 0
    BY DEF GivenUp, IdleConn
  <2>3. boot' = boot + 1 /\ boot \in 1 .. MaxBoots /\ boot' \in 1 .. MaxBoots
    <3>1. boot' = boot + 1 /\ boot < MaxBoots
      OBVIOUS
    <3>2. boot \in 1 .. MaxBoots /\ MaxBoots \in Nat
      BY DEF TypeOK, PersoTypeOK
    <3> HIDE <1>21 DEF Restart
    <3> QED
      BY <3>1, <3>2
  <2>4. TypeOK'
    <3>1. TPTypeOK' /\ DevTypeOK'
      BY DEF TPrestart, DevRestart, TypeOK, TPTypeOK, DevTypeOK
    <3>2. nvs' \in NVS /\ nvsSet' \in NVS
      BY DEF TypeOK, PersoTypeOK
    <3> QED
      BY <2>1, <2>3, <3>1, <3>2 DEF TypeOK, PersoTypeOK, LinkTypeOK, Links, MainSteps, ServerSteps
  <2>5. \A c \in Conns : conns'[c].at <= boot' /\ conns'[c].at # boot'
    <3>1. \A c \in Conns : conns[c].at \in 0 .. MaxBoots /\ conns[c].at <= boot
      BY DEF ConnInv, TypeOK, PersoTypeOK, Conn
    <3> HIDE <1>21 DEF Restart
    <3> QED
      BY <2>1, <2>2, <2>3, <3>1
  <2>6. ConnInv' /\ AnswerInv'
    BY <2>1, <2>2, <2>5 DEF ConnInv, AnswerInv
  <2>7. MainInv' /\ ServerInv' /\ StatusInv'
    BY DEF MainInv, ServerInv, StatusInv, FromFormat, FromGenKey, FromWriteKey, FromWifi
  <2> QED
    BY <2>4, <2>6, <2>7
<1>22. CASE UNCHANGED vars
  BY <1>22 DEF vars, ConnInv, MainInv, ServerInv, StatusInv, AnswerInv, Whole, TypeOK,
     TPTypeOK, DevTypeOK, PersoTypeOK, LinkTypeOK
<1> QED
  BY <1>1, <1>2, <1>3, <1>4, <1>5, <1>6, <1>7, <1>8, <1>9, <1>10, <1>11, <1>12, <1>13,
     <1>14, <1>15, <1>16, <1>17, <1>18, <1>19, <1>20, <1>21, <1>22 DEF Next, MainTask,
     Finish, Serve, Client

\* The invariant holds in every reachable state.
THEOREM Invariance == Spec => []IInv
  BY InitIInv, NextIInv, PTL DEF Spec

------------------------------------------------------------------------------
\* Every variable keeps its type: the store only ever holds what TPwrite was handed, and
\* gCertBuf only a request or the empty string.
THEOREM TypeCorrect == Spec => []TypeOK
<1>1. IInv => TypeOK
  BY DEF IInv
<1> QED
  BY Invariance, <1>1, PTL

\* The server never answers before this boot's key pair is in the store.
THEOREM ServerKey == Spec => []ServerHasKey
<1>1. IInv => ServerHasKey
  BY DEF IInv, MainInv, ServerHasKey, FromFormat, FromGenKey, FromWriteKey, FromWifi
<1> QED
  BY Invariance, <1>1, PTL

\* No request for a key of an earlier boot is in gCertBuf or reaches a client.
THEOREM CsrOfThisBoot == Spec => []CsrMatchesStore
<1>1. IInv => CsrMatchesStore
  BY DEF IInv, AnswerInv, CsrMatchesStore
<1> QED
  BY Invariance, <1>1, PTL

\* A client that was told "Init" finds mark and certificate in flash.
THEOREM InitAnswer == Spec => []InitAnswerIsTrue
<1>1. IInv => InitAnswerIsTrue
  BY DEF IInv, AnswerInv, InitAnswerIsTrue
<1> QED
  BY Invariance, <1>1, PTL

\* The first DevIDfinal of a boot never hangs the server while the storage works.
THEOREM HangOnSecond == Spec => []HangsOnlyOnSecondMark
<1>1. IInv => HangsOnlyOnSecondMark
  BY DEF IInv, StatusInv, HangsOnlyOnSecondMark
<1> QED
  BY Invariance, <1>1, PTL

------------------------------------------------------------------------------
\* Only six actions touch the store, and of them only Format before the cipher has its key.
LEMMA StoreSteps ==
  ASSUME IInv, [Next]_vars
  PROVE  \/ UNCHANGED files
         \/ files' = [n \in Names |-> NoFile]
         \/ gINT
<1> USE DEF IInv, MainInv
<1>1. CASE MainTask
  BY <1>1 DEF MainTask, MainGoes, ReadStatus, Register, TPinitRegister, Format, TPinitFormat,
     Open, DeviceID_opened, TPinitDerive, GenKey, WriteKey, CloseKey, StartWifi, WifiReturns,
     StartServer, FromFormat, FromGenKey
<1>2. CASE Finish
  BY <1>2 DEF Finish, CloseCert, SendInit, SetStatus, FromFormat, FromGenKey
<1>3. ASSUME NEW c \in Conns, Serve(c) \/ Client(c)
      PROVE  UNCHANGED files \/ gINT
  BY <1>3 DEF Serve, Client, Status, GenCSR, DevIDfinal, Takes, Send, GiveUp, Done, FromFormat,
     FromGenKey
<1>4. CASE Radio \/ Restart \/ UNCHANGED vars
  BY <1>4 DEF Radio, Restart, TPrestart, vars
<1> QED
  BY <1>1, <1>2, <1>3, <1>4 DEF Next

\* No file is written before TPinit has derived the system key.
THEOREM KeyBeforeWrite == Spec => WritesUnderKey
<1>1. IInv /\ [Next]_vars =>
        [\A n \in Names : files'[n] # files[n] => gINT \/ files'[n] = NoFile]_vars
  BY StoreSteps
<1> QED
  BY Invariance, <1>1, PTL DEF Spec, WritesUnderKey
------------------------------------------------------------------------------
\* Without faults, what genCSR_handler leaves in the shared buffer is the request for the
\* key of this boot and the subject it was called with.
LEMMA GenCSRResult ==
  ASSUME IInv, httpd # "down", ~CryptoFaults, ~FlashFaults,
         NEW subject, NEW r \in DeviceID_genCSR(gCertBuf, subject)
  PROVE  r.buf = [key |-> boot, subject |-> subject]
<1>1. files[KeyFile] = KeyPem(boot) /\ mounted /\ KeyPem(boot) \in Contents
  BY DEF IInv, MainInv, FromWifi, FromWriteKey, FromGenKey, FromFormat, TypeOK, PersoTypeOK,
     KeyPem, Contents, Subjects, Keys
<1> QED
  BY <1>1, DeviceIDAssumption DEF DeviceID_genCSR, TPread, KeyPem

\* A step keeps every client's answer its own.
LEMMA CsrStep ==
  ASSUME IInv, CsrIsTheClients, [Next]_vars, ~CryptoFaults, ~FlashFaults
  PROVE  CsrIsTheClients'
<1> DEFINE Own(r, left) == r.cli = "answer" /\ r.says = "CSR" =>
                             /\ r.csr # NoArg
                             /\ r.body = "whole" => r.csr.subject = Named(r.arg)
                             /\ r.csr.subject \subseteq Named(r.arg) \cup left
           AllOwn == \A d \in Conns : Own(conns'[d], leftover')
<1> USE DEF IInv
<1>1. leftover \subseteq leftover'
  BY DEF Next, MainTask, Finish, Serve, Client, ReadStatus, Register, Format, Open, GenKey,
     WriteKey, CloseKey, StartWifi, WifiReturns, StartServer, CloseCert, SendInit, SetStatus,
     Status, GenCSR, DevIDfinal, Send, GiveUp, Done, Radio, Restart, vars
<1>2. \A d \in Conns : Own(conns[d], leftover')
  BY <1>1 DEF CsrIsTheClients
<1>3. SUFFICES AllOwn
  BY DEF CsrIsTheClients
<1>4. ASSUME NEW c \in Conns, Unanswered(c)
      PROVE  AllOwn
  BY <1>2, <1>4, UnansweredEffect
<1>5. ASSUME NEW c \in Conns, NEW says \in Says \ {"CSR"}, Answer(c, says, NoArg, "whole")
      PROVE  AllOwn
  BY <1>2, <1>5, AnswerEffect DEF Bodies
<1>6. ASSUME NEW c \in Conns, GenCSR(c)
      PROVE  AllOwn
  <2>1. CASE RecvFails(c)
    BY <1>4, <1>5, <2>1 DEF RecvFails, Says
  <2>2. ASSUME leftover' = leftover \cup Named(conns[c].arg),
               NEW body \in Bodies, NEW subject \in Found(conns[c].arg, body),
               NEW r \in DeviceID_genCSR(gCertBuf, subject), Respond(c, "CSR", r.buf, body)
        PROVE  AllOwn
    <3>1. r.buf = [key |-> boot, subject |-> subject]
      BY <1>6, GenCSRResult DEF GenCSR, Takes
    <3>2. /\ subject \in Subjects
          /\ body = "whole" => subject = Named(conns[c].arg)
          /\ subject \subseteq Named(conns[c].arg) \cup leftover'
      BY <2>2 DEF Found, Named, Subjects, TypeOK, PersoTypeOK
    <3>3. r.buf \in CSRs /\ r.buf # NoArg /\ r.buf.subject = subject
      BY <1>6, <3>1, <3>2, PersoAssumption DEF TypeOK, PersoTypeOK, CSRs, Certs, Keys
    <3>4. CASE Answer(c, "CSR", r.buf, body)
      <4>1. /\ conns'[c].csr = r.buf /\ conns'[c].arg = conns[c].arg
            /\ conns'[c].body = body
            /\ \A d \in Conns : d # c => conns'[d] = conns[d]
        BY <3>3, <3>4, AnswerEffect DEF Bodies, Says
      <4>2. Own(conns'[c], leftover')
        BY <3>2, <3>3, <4>1
      <4> QED
        BY <1>2, <4>1, <4>2
    <3> QED
      BY <1>4, <2>2, <3>4 DEF Respond
  <2> QED
    BY <1>6, <2>1, <2>2 DEF GenCSR
<1>7. ASSUME \A d \in Conns : conns'[d] = conns[d] \/ conns'[d].cli # "answer"
      PROVE  AllOwn
  BY <1>2, <1>7
<1>8. ASSUME NEW c \in Conns, Client(c)
      PROVE  AllOwn
  <2>1. conns \in [Conns -> Conn]
    BY DEF TypeOK, PersoTypeOK
  <2>2. PICK r : conns' = [conns EXCEPT ![c] = r] /\ r.cli # "answer"
    <3>1. CASE \E kind \in Kinds : \E arg \in ArgsOf(kind) : Send(c, kind, arg)
      <4>1. PICK kind \in Kinds : \E arg \in ArgsOf(kind) : Send(c, kind, arg)
        BY <3>1
      <4>2. PICK arg \in ArgsOf(kind) : Send(c, kind, arg)
        BY <4>1
      <4> DEFINE sent == [IdleConn EXCEPT !.dev = "pending", !.cli = "wait", !.kind = kind,
                                          !.arg = arg]
      <4>3. sent.cli # "answer" /\ GivenUp.cli # "answer"
        BY DEF GivenUp, IdleConn
      <4>4. conns' = [conns EXCEPT ![c] = sent] \/ conns' = [conns EXCEPT ![c] = GivenUp]
        BY <4>2 DEF Send
      <4> HIDE DEF sent
      <4> QED
        BY <4>3, <4>4
    <3>2. CASE GiveUp(c)
      <4> DEFINE r == [conns[c] EXCEPT !.cli = "error"]
      <4>1. conns' = [conns EXCEPT ![c] = r] /\ r.cli # "answer"
        BY <2>1, <3>2 DEF GiveUp, Conn
      <4> QED
        BY <4>1
    <3>3. CASE Done(c)
      <4>1. conns' = [conns EXCEPT ![c] = IdleConn] /\ IdleConn.cli # "answer"
        BY <3>3 DEF Done, IdleConn
      <4> QED
        BY <4>1
    <3> QED
      BY <1>8, <3>1, <3>2, <3>3 DEF Client
  <2> QED
    BY <1>7, <2>1, <2>2
<1>9. CASE Restart
  <2>1. GivenUp.cli # "answer"
    BY DEF GivenUp, IdleConn
  <2> QED
    BY <1>7, <1>9, <2>1 DEF Restart
<1>10. CASE UNCHANGED conns
  BY <1>7, <1>10
<1>11. serving \in Conns \/ ~SendInit
  BY DEF SendInit, ServerInv
<1> QED
  BY <1>4, <1>5, <1>6, <1>8, <1>9, <1>10, <1>11
     DEF Next, MainTask, Finish, Serve, ReadStatus, Register, Format, Open, GenKey, WriteKey,
         CloseKey, StartWifi, WifiReturns, StartServer, CloseCert, SendInit, SetStatus, Radio,
         Status, DevIDfinal, Respond, RecvFails, Bodies, Says, vars

\* Without faults a client whose body came whole is sent a request for the subject it asked
\* for, though all answers are sent from one buffer; behind a part of a body only names of
\* bodies that came before can be in the subject besides its own.
THEOREM CsrOwn == Spec => []CsrIsTheClients
<1>1. Init => CsrIsTheClients
  BY DEF Init, IdleConn, CsrIsTheClients
<1>2. IInv /\ CsrIsTheClients /\ [Next]_vars => CsrIsTheClients'
  BY CsrStep DEF CsrIsTheClients
<1> QED
  BY Invariance, <1>1, <1>2, PTL DEF Spec

------------------------------------------------------------------------------
(* The refinement.  A truncated file counts as none, so every step that    *)
(* opens a file takes its content out, and the step that closes it puts    *)
(* the new one in.                                                         *)

\* What the mapping reads is what these variables hold.
LEMMA SameIdentity ==
  ASSUME UNCHANGED << files, nvsSet >>
  PROVE  UNCHANGED Identity!vars
  BY DEF Identity!vars, NoneOr, Whole

\* A step of the main task is the emptying of the store, the putting in of a key where
\* there is none, or nothing.
LEMMA MainTaskRefines ==
  ASSUME IInv, MainTask, ~FlashFaults
  PROVE  [Identity!Next]_(Identity!vars)
<1> USE DeviceIDAssumption DEF IInv, TypeOK, TPTypeOK, MainGoes, NoneOr, Whole
<1>1. CASE ReadStatus
  BY <1>1 DEF ReadStatus, Identity!vars
<1>2. CASE Format
  <2>1. NoneOr(KeyFile)' = NoFile /\ NoneOr(CertFile)' = NoFile /\ nvsSet' = nvsSet
    BY <1>2 DEF Format, TPinitFormat, Names, KeyFile, CertFile
  <2> QED
    BY <2>1 DEF Identity!Next, Identity!Erase
<1>3. CASE WriteKey
  <2>1. NoneOr(KeyFile) = NoFile /\ NoneOr(KeyFile)' = NoFile /\ nvsSet' = nvsSet
        /\ NoneOr(CertFile)' = NoneOr(CertFile)
    BY <1>3 DEF WriteKey, TPwriteOpen, TPwriteFails, MainInv, Names, KeyFile, CertFile
  <2> QED
    BY <2>1 DEF Identity!vars
<1>4. CASE CloseKey
  <2>1. KeyPem(pk) \in Contents
    BY <1>4 DEF CloseKey, MainInv, FromWriteKey, FromGenKey, FromFormat, PersoTypeOK, Keys,
       KeyPem, Contents, Subjects
  <2>2. NoneOr(KeyFile) = NoFile /\ NoneOr(CertFile) = NoFile
    BY <1>4 DEF CloseKey, MainInv, FromFormat
  <2>3. NoneOr(KeyFile)' = KeyPem(pk) /\ NoneOr(CertFile)' = NoneOr(CertFile)
        /\ nvsSet' = nvsSet
    BY <1>4, <2>1 DEF CloseKey, TPwriteClose, Names, KeyFile, CertFile
  <2> QED
    BY <2>1, <2>2, <2>3 DEF Identity!Next, Identity!NewKey
<1>5. CASE Register \/ Open \/ GenKey \/ StartWifi \/ WifiReturns \/ StartServer
  BY <1>5, SameIdentity DEF Register, TPinitRegister, Open, DeviceID_opened, TPinitDerive, GenKey,
     StartWifi, WifiReturns, StartServer
<1> QED
  BY <1>1, <1>2, <1>3, <1>4, <1>5 DEF MainTask

\* A step of the server takes the certificate out, puts one in beside the key, sets the mark
\* over both, or does nothing to them.
LEMMA ServerRefines ==
  ASSUME IInv, ~FlashFaults, Finish \/ \E c \in Conns : Serve(c)
  PROVE  [Identity!Next]_(Identity!vars)
<1> USE DeviceIDAssumption DEF IInv, TypeOK, TPTypeOK, NoneOr, Whole
<1>1. pc = "spin" /\ files[KeyFile] = KeyPem(boot) /\ KeyPem(boot) \in Contents
  BY DEF Finish, CloseCert, SendInit, SetStatus, Serve, Status, GenCSR, DevIDfinal, Takes,
     MainInv,
     FromWifi, FromWriteKey, FromGenKey, FromFormat, PersoTypeOK, KeyPem, Contents, Subjects, Keys
<1>2. CASE CloseCert
  <2>1. PICK text \in Texts(conns[serving].arg) : StoreCertClose(text)
    BY <1>2 DEF CloseCert
  <2>2. CertPem(text) \in Contents
    BY TextsAreContents
  <2>3. NoneOr(KeyFile)' = NoneOr(KeyFile) /\ nvsSet' = nvsSet
        /\ NoneOr(CertFile)' = CertPem(text)
    BY <1>2, <2>1, <2>2 DEF CloseCert, StoreCertClose, TPwriteClose, Names, KeyFile, CertFile
  <2> QED
    BY <1>1, <2>2, <2>3 DEF Identity!Next, Identity!Certify
<1>3. CASE SetStatus
  <2>1. NoneOr(KeyFile) # NoFile /\ NoneOr(CertFile) # NoFile
    BY <1>1, <1>3 DEF SetStatus, ServerInv
  <2>2. files' = files /\ (nvsSet' = "INIT" \/ nvsSet' = nvsSet)
    BY <1>3 DEF SetStatus
  <2> QED
    BY <2>1, <2>2 DEF Identity!Next, Identity!Mark, Identity!vars
<1>4. ASSUME NEW c \in Conns, DevIDfinal(c)
      PROVE  [Identity!Next]_(Identity!vars)
  <2>1. CASE UNCHANGED files
    BY <1>4, <2>1, SameIdentity DEF DevIDfinal
  <2>2. CASE StoreCertOpen
    <3>1. NoneOr(KeyFile)' = NoneOr(KeyFile) /\ NoneOr(CertFile)' = NoFile /\ nvsSet' = nvsSet
      BY <1>4, <2>2 DEF DevIDfinal, StoreCertOpen, TPwriteOpen, Names, KeyFile, CertFile
    <3> QED
      BY <1>1, <3>1 DEF Identity!Next, Identity!Certify
  <2> QED
    BY <1>4, <2>1, <2>2 DEF DevIDfinal
<1>5. ASSUME NEW c \in Conns, Status(c) \/ GenCSR(c)
      PROVE  [Identity!Next]_(Identity!vars)
  BY <1>5, SameIdentity DEF Status, GenCSR
<1>6. CASE SendInit
  BY <1>6, SameIdentity DEF SendInit
<1> QED
  BY <1>2, <1>3, <1>4, <1>5, <1>6 DEF Finish, Serve

\* While the flash does not fail, the firmware implements DeviceIdentity: the key comes
\* first and is not replaced while the store lives, a certificate only exists beside it,
\* and the status turns INIT only over both.
THEOREM IdentityImplemented ==
  ASSUME ~FlashFaults PROVE Spec => ImplementsIdentity
<1>1. Init => Identity!Init
  BY DeviceIDAssumption DEF Init, TPInit0, Identity!Init, NoneOr, Whole, Names, KeyFile, CertFile
<1>2. IInv /\ [Next]_vars => [Identity!Next]_(Identity!vars)
  <2> SUFFICES ASSUME IInv, [Next]_vars PROVE [Identity!Next]_(Identity!vars)
    OBVIOUS
  <2>1. CASE MainTask
    BY <2>1, MainTaskRefines
  <2>2. CASE Finish \/ \E c \in Conns : Serve(c)
    BY <2>2, ServerRefines
  <2>3. CASE Radio \/ (\E c \in Conns : Client(c)) \/ UNCHANGED vars
    BY <2>3, SameIdentity DEF Radio, Client, Send, GiveUp, Done, vars
  <2>4. CASE Restart
    <3>1. files' = files /\ (nvsSet' = nvsSet \/ nvsSet' # "INIT")
      BY <2>4 DEF Restart, TPrestart, IInv, StatusInv
    <3> QED
      BY <3>1 DEF Identity!Next, Identity!Unmark, Identity!vars, NoneOr, Whole
  <2> QED
    BY <2>1, <2>2, <2>3, <2>4 DEF Next
<1> QED
  BY <1>1, <1>2, Invariance, PTL DEF Spec, ImplementsIdentity, Identity!Spec
=============================================================================
