------------------------------- MODULE Wallet -------------------------------
(***************************************************************************)
(* The file of the wallet (wallet.c) and the key that the process holds.   *)
(* A key and its address are one, and a key is the number of its making:   *)
(* EVP_PKEY_keygen never makes the same one again.  The file outlives the  *)
(* process; what has been written to a FILE but not flushed does not.      *)
(* The machine keeps running: wallet_save has no fsync, and what a failure *)
(* of the machine does to the file is left out.                            *)
(***************************************************************************)
EXTENDS Integers

CONSTANTS
    Absent, Broken,     \* no file; an empty or incomplete file
    MaxKeys,            \* bound: keys made
    MaxDiskFaults       \* bound: operations on the file that fail

ASSUME FileAssumption == /\ MaxKeys \in Nat /\ MaxDiskFaults \in Nat
                         /\ Absent # Broken /\ {Absent, Broken} \cap Nat = {}

VARIABLES
    file,           \* what wallet.pem holds: Absent, Broken or a key
    wallet,         \* the key of this process, 0 for none
    keys_made,      \* how many keys there have been
    disk_faults     \* how many operations on the file have failed

walletVars == <<file, wallet, keys_made, disk_faults>>

Keys == 1 .. MaxKeys

WalletTypeOK ==
    /\ file \in Keys \cup {Absent, Broken}
    /\ wallet \in 0 .. MaxKeys
    /\ keys_made \in 0 .. MaxKeys
    /\ disk_faults \in 0 .. MaxDiskFaults

WalletInit ==
    /\ file = Absent
    /\ wallet = 0
    /\ keys_made = 0
    /\ disk_faults = 0

DiskFails == disk_faults < MaxDiskFaults /\ disk_faults' = disk_faults + 1

\* wallet_load returns 0.
WalletLoad ==
    /\ file \in Keys
    /\ wallet' = file
    /\ UNCHANGED <<file, keys_made, disk_faults>>

\* wallet_load returns -1: there is no key in the file, or it cannot be read.
WalletLoadFails ==
    /\ \/ file \in {Absent, Broken} /\ UNCHANGED disk_faults
       \/ file \in Keys /\ DiskFails
    /\ wallet' = 0
    /\ UNCHANGED <<file, keys_made>>

\* wallet_create.
WalletCreate ==
    /\ keys_made < MaxKeys
    /\ keys_made' = keys_made + 1
    /\ wallet' = keys_made'
    /\ UNCHANGED <<file, disk_faults>>

\* wallet_save: fopen with "w" empties the file.
WalletOpen ==
    /\ file' = Broken
    /\ UNCHANGED <<wallet, keys_made, disk_faults>>

\* fopen fails, and wallet_save returns -1.
WalletOpenFails ==
    /\ DiskFails
    /\ UNCHANGED <<file, wallet, keys_made>>

\* Mutant of WalletFlush: the file is not closed, and its buffer stays where it is.
WalletFlushForgotten == UNCHANGED <<file, wallet, keys_made, disk_faults>>

\* PEM_write_PrivateKey fills the buffer of the FILE and fclose flushes it; the
\* result of fclose is not looked at, so that wallet_save returns 0 either way.
WalletFlush ==
    /\ \/ file' = wallet /\ UNCHANGED disk_faults
       \/ DiskFails /\ UNCHANGED file
    /\ UNCHANGED <<wallet, keys_made>>

\* The process is gone, after wallet_destroy or without it.
WalletForget ==
    /\ wallet' = 0
    /\ UNCHANGED <<file, keys_made, disk_faults>>
=============================================================================
