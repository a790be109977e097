---------------------------- MODULE TrustPlatform ----------------------------
(***************************************************************************)
(* The trusted store of main/TrustPlatform.c: one SPIFFS partition mounted *)
(* at /TP, whose files are AES-encrypted as a whole.                       *)
(*                                                                         *)
(* TPinit, TPread and TPwrite run in the task that calls them, so they are *)
(* given as STEPS that a caller conjoins with its own control: a power     *)
(* loss can fall between any two of them.  What a file holds is the value  *)
(* that was handed to TPwrite (the cipher is in module TrustCipher), or    *)
(* Torn when the bytes in flash are not all the bytes of that value.       *)
(***************************************************************************)
EXTENDS Naturals

CONSTANTS
  Names,       \* the file names the firmware uses
  Contents,    \* the values the firmware hands to TPwrite
  NoFile,      \* the directory has no entry of this name
  Torn,        \* the entry exists, and its bytes are truncated
  FlashFaults  \* may the flash fail: a short fwrite, a failing fread or fopen

VARIABLES
  files,    \* FLASH: the entries of the TrustStore partition
  mounted,  \* RAM: esp_vfs_spiffs_register has mounted the partition
  gINT      \* RAM: the AES context holds the system key

TPTypeOK ==
  /\ files \in [Names -> Contents \cup {NoFile, Torn}]
  /\ mounted \in BOOLEAN
  /\ gINT \in BOOLEAN

TPInit0 ==
  /\ files = [n \in Names |-> NoFile]
  /\ mounted = FALSE
  /\ gINT = FALSE

\* A restart: RAM is lost, the partition keeps its entries.  The entry of a file
\* that was open for writing is the truncated one TPwriteOpen left.
TPrestart ==
  /\ mounted' = FALSE
  /\ gINT' = FALSE
  /\ UNCHANGED files

------------------------------------------------------------------------------
(* TPinit: mount, format, derive the key.                                  *)

\* esp_vfs_spiffs_register.  A partition it cannot mount is formatted
\* (format_if_mount_failed), which an interrupted format also comes to.  When the
\* partition is missing, directoryTP's assertion restarts the chip.
TPinitRegister ==
  /\ mounted' = TRUE
  /\ gINT' = FALSE
  /\ UNCHANGED files

\* A changed TPinit, which leaves a store it could mount as it is.
TPinitKeep ==
  /\ mounted
  /\ UNCHANGED << files, mounted, gINT >>

\* The second half of TPinit formats the partition again, whatever it found there.
\* An interrupted format leaves a partition without its magic, whose entries are
\* gone too, so the erasure is one step.
TPinitFormat ==
  /\ mounted
  /\ files' = [n \in Names |-> NoFile]
  /\ UNCHANGED << mounted, gINT >>

\* _derive_sys_Key and init_aes; a MAC that cannot be read aborts, that is, restarts.
TPinitDerive ==
  /\ gINT' = TRUE
  /\ UNCHANGED << files, mounted >>

------------------------------------------------------------------------------
(* TPwrite(n, c).  Its guard tests the macro TP_INIT, the constant true,   *)
(* and not the flag gINT: nothing here reads gINT.                         *)

\* fopen(.., "w") truncates the entry, or creates it empty.
TPwriteOpen(n) ==
  /\ mounted
  /\ files' = [files EXCEPT ![n] = Torn]
  /\ UNCHANGED << mounted, gINT >>

\* fopen returns NULL: TP_ERR_COULD_NOT_OPEN_FILE, nothing is written.
TPwriteFails ==
  /\ ~mounted \/ FlashFaults
  /\ UNCHANGED << files, mounted, gINT >>

\* fwrite and fclose.  Neither result is looked at, and TPwrite returns TP_OK: after
\* a short write the entry stays truncated.
TPwriteClose(n, c) ==
  /\ \/ files' = [files EXCEPT ![n] = c]
     \/ FlashFaults /\ UNCHANGED files
  /\ UNCHANGED << mounted, gINT >>

------------------------------------------------------------------------------
(* TPread(n): every value it may return.  The callers' buffer has 16000    *)
(* bytes, more than any file they write, so TP_ERR_BUFFER_TO_SMALL needs a *)
(* smaller buffer than theirs (module TrustCipher has it).                 *)

TPread(n) ==
  IF ~mounted \/ files[n] = NoFile
    THEN {[ret |-> "TP_ERR_FILE_NOT_EXIST", data |-> NoFile]}
    ELSE {[ret |-> "TP_OK", data |-> files[n]]}
         \cup {r \in {[ret |-> "TP_ERR_READ_FILE", data |-> NoFile]} : FlashFaults}

\* The entry exists and holds everything that was written to it.
Whole(n) == files[n] \in Contents
=============================================================================
