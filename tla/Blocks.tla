------------------------------- MODULE Blocks -------------------------------
(***************************************************************************)
(* What the buffer cache promises to the file system above it: every disk  *)
(* block is one register, and a process has it to itself from bread to     *)
(* brelse.  What a holder stores is what the next holder finds, however    *)
(* often the buffer was recycled in between.  The one exception is a disk  *)
(* error: the driver ignores it, and the block's content is no longer known.*)
(***************************************************************************)
CONSTANTS Proc, Block, Val, None

VARIABLES content,   \* what a reader of the block finds
          holder,    \* the process between bread and brelse, or None
          failed     \* the blocks the disk has failed to read

bvars == <<content, holder, failed>>

Init == /\ content \in [Block -> Val]
        /\ holder = [k \in Block |-> None]
        /\ failed = {}

Get(p, k) == /\ holder[k] = None
             /\ holder' = [holder EXCEPT ![k] = p]
             /\ UNCHANGED <<content, failed>>

Store(p, k, v) == /\ holder[k] = p
                  /\ content' = [content EXCEPT ![k] = v]
                  /\ UNCHANGED <<holder, failed>>

Put(p, k) == /\ holder[k] = p
             /\ holder' = [holder EXCEPT ![k] = None]
             /\ UNCHANGED <<content, failed>>

\* The disk failed the read: the process gets the block all the same, with
\* whatever content.
GetGarbled(p, k, v) == /\ holder[k] = None
                       /\ holder' = [holder EXCEPT ![k] = p]
                       /\ content' = [content EXCEPT ![k] = v]
                       /\ failed' = failed \cup {k}

\* The content of such a block depends on which copy is looked at.
Unreliable(k, v) == /\ k \in failed
                    /\ content' = [content EXCEPT ![k] = v]
                    /\ UNCHANGED <<holder, failed>>

Next == \E k \in Block, p \in Proc :
          \/ Get(p, k) \/ Put(p, k)
          \/ \E v \in Val : Store(p, k, v) \/ GetGarbled(p, k, v) \/ Unreliable(k, v)

Spec == Init /\ [][Next]_bvars
=============================================================================
