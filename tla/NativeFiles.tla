---------------------------- MODULE NativeFiles ----------------------------
(***************************************************************************)
(* The file channels of a native program (uxb_runtime_mir.cpp:665-792): the *)
(* table of channels under file_mutex, and PRINT #, whose line a thread    *)
(* gathers in one buffer from FILE_PRINT_BEGIN to FILE_PRINT_END.  The      *)
(* items of the statement are evaluated in between (mir_lower_stmt.fbs:     *)
(* 296-323), and may call a routine, or wait and so run a task, that has a *)
(* PRINT # of its own.                                                     *)
(***************************************************************************)
EXTENDS Sequences, SequencesExt, Naturals

CONSTANTS
  NfThreads, NfChannels,
  NfFiles,     \* bound: FILE objects, 1..NfFiles; one closed is given out again
  NfItems,     \* bound: the items of a PRINT #
  NfNesting    \* bound: how deep PRINT # statements nest on a thread

ASSUME NfAssumption == NfFiles \in Nat /\ NfItems \in Nat /\ NfNesting \in Nat

VARIABLES
  nfChannel,   \* files: the FILE of each channel, 0 for none
  nfOpen,      \* the FILE objects that are open
  nfPrint,     \* the PRINT # statements a thread is in, the innermost last
  nfBuffer,    \* tl_filePrintBuffer and tl_filePrintChannel
  nfWritten    \* what a thread's last PRINT # had to write, and what was written

nfVars == <<nfChannel, nfOpen, nfPrint, nfBuffer, nfWritten>>

NoChannel == <<>>
NoneWritten == [given |-> <<>>, wrote |-> <<>>, open |-> FALSE]

(* Mutant of NotOpened: the channel keeps the file that was closed. *)
NotOpenedKept(ch) == nfChannel

NotOpened(ch) == [nfChannel EXCEPT ![ch] = 0]

(* __uxb_rt_file_open: the channel's old file is closed first; when the new    *)
(* one does not open the channel has none.                                   *)
FileOpen(ch) ==
  /\ LET left == nfOpen \ {nfChannel[ch]}
     IN  \/ /\ \E f \in 1..NfFiles \ left :
                 /\ nfChannel' = [nfChannel EXCEPT ![ch] = f]
                 /\ nfOpen' = left \cup {f}
         \/ /\ nfChannel' = NotOpened(ch)
            /\ nfOpen' = left
  /\ UNCHANGED <<nfPrint, nfBuffer, nfWritten>>

FileClose(ch) ==
  /\ nfChannel[ch] /= 0
  /\ nfOpen' = nfOpen \ {nfChannel[ch]}
  /\ nfChannel' = [nfChannel EXCEPT ![ch] = 0]
  /\ UNCHANGED <<nfPrint, nfBuffer, nfWritten>>

(* __uxb_rt_file_print_begin.  An item is named for the statement it is of.   *)
FilePrintBegin(th, ch) ==
  /\ Len(nfPrint[th]) < NfNesting
  /\ nfPrint' = [nfPrint EXCEPT ![th] = Append(@, [channel |-> <<ch>>, items |-> <<>>])]
  /\ nfBuffer' = [nfBuffer EXCEPT ![th] = [channel |-> <<ch>>, items |-> <<>>]]
  /\ UNCHANGED <<nfChannel, nfOpen, nfWritten>>

FilePrintText(th) ==
  /\ nfPrint[th] /= <<>> /\ Len(Last(nfPrint[th]).items) < NfItems
  /\ LET level == Len(nfPrint[th])
         item == <<th, level, Len(nfPrint[th][level].items)>>
     IN  /\ nfPrint' = [nfPrint EXCEPT ![th][level].items = Append(@, item)]
         /\ nfBuffer' = [nfBuffer EXCEPT ![th].items = Append(@, item)]
  /\ UNCHANGED <<nfChannel, nfOpen, nfWritten>>

ChannelFile(channel) == IF channel = NoChannel THEN 0 ELSE nfChannel[channel[1]]

(* __uxb_rt_file_print_end: nothing is written when the channel has no file,  *)
(* and then the buffer stays.                                                *)
FilePrintEnd(th) ==
  /\ nfPrint[th] /= <<>>
  /\ LET statement == Last(nfPrint[th])
         open == ChannelFile(nfBuffer[th].channel) /= 0
     IN  /\ nfWritten' = [nfWritten EXCEPT ![th] =
              [given |-> statement.items,
               wrote |-> IF open THEN nfBuffer[th].items ELSE <<>>,
               open |-> ChannelFile(statement.channel) /= 0]]
         /\ nfBuffer' = [nfBuffer EXCEPT ![th] =
              [channel |-> NoChannel, items |-> IF open THEN <<>> ELSE @.items]]
  /\ nfPrint' = [nfPrint EXCEPT ![th] = Front(@)]
  /\ UNCHANGED <<nfChannel, nfOpen>>

NfInit ==
  /\ nfChannel = [ch \in NfChannels |-> 0]
  /\ nfOpen = {}
  /\ nfPrint = [th \in NfThreads |-> <<>>]
  /\ nfBuffer = [th \in NfThreads |-> [channel |-> NoChannel, items |-> <<>>]]
  /\ nfWritten = [th \in NfThreads |-> NoneWritten]

NfNext ==
  \/ \E ch \in NfChannels : FileOpen(ch) \/ FileClose(ch)
  \/ \E th \in NfThreads :
       \/ \E ch \in NfChannels : FilePrintBegin(th, ch)
       \/ FilePrintText(th)
       \/ FilePrintEnd(th)

NfSpec == NfInit /\ [][NfNext]_nfVars

(* No FILE is lost or closed behind a channel's back: the open ones are those  *)
(* of the channels, each of one channel, and a failed OPEN leaves the channel  *)
(* without the file it closed (file_open, uxb_runtime_mir.cpp:665-688).        *)
ChannelsAccounted ==
  /\ nfOpen = {nfChannel[ch] : ch \in NfChannels} \ {0}
  /\ \A c, d \in NfChannels : nfChannel[c] = nfChannel[d] /\ nfChannel[c] /= 0 => c = d

(* PRINT # writes all its items and nothing else to its channel, if it is open *)
(* (uxb_runtime_mir.cpp:741-743: the line is gathered in a buffer of the       *)
(* thread and written at once, the lines of tasks do not mix).                 *)
FileLinesWhole ==
  \A th \in NfThreads : nfWritten[th].open => nfWritten[th].wrote = nfWritten[th].given

(* Both: the FILEs are accounted for and, on threads whose PRINT # statements  *)
(* do not nest, every line is written whole, of its own items.               *)
FilesExact == ChannelsAccounted /\ FileLinesWhole

=============================================================================
