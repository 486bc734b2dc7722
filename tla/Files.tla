------------------------------- MODULE Files -------------------------------
(***************************************************************************)
(* The read-only file system (filesys.c), the descriptor tables of the      *)
(* processes (open, close, read and write, the descriptors that execute()   *)
(* sets up and halt() closes, syscall.c) and the programs of one terminal   *)
(* that use them: any calls, those of ls, cat, grep and syserr included.    *)
(*                                                                         *)
(* A process control block stays where it is when its process ends, so the  *)
(* next process with that pid starts from what the last one left in its     *)
(* descriptors.  A signal may end a process in the middle of open().        *)
(***************************************************************************)
EXTENDS Integers, Sequences, FiniteSets, SequencesExt, Functions

CONSTANTS
    Pids,           \* 0 .. MAX_PROCESSES - 1
    MAX_FILES,      \* descriptors of a process
    BLOCK_SIZE,     \* bytes of a data block
    FILENAME_LEN,   \* the longest name
    INT_MAX,        \* the largest int32_t
    direntries,     \* the directory: [name, len, filetype, inode, program]
    inodes,         \* [length, data_block_num], by number
    blocks,         \* the bytes of each data block
    Sizes           \* the values of nbytes that programs pass

Free == 0
Busy == 1
RTC_TYPE == 0
DIR_TYPE == 1
FILE_TYPE == 2

ASSUME FilesAssumption ==
    /\ Pids # {} /\ Pids \subseteq Nat /\ IsFiniteSet(Pids)
    /\ MAX_FILES \in Nat /\ MAX_FILES >= 2
    /\ BLOCK_SIZE \in Nat \ {0}
    /\ INT_MAX \in Nat
    /\ 0 \in DOMAIN inodes
    /\ \A i \in DOMAIN inodes :
          /\ inodes[i].length \in 0 .. INT_MAX
          /\ \A k \in 0 .. inodes[i].length - 1 :
                /\ (k \div BLOCK_SIZE) + 1 \in DOMAIN inodes[i].data_block_num
                /\ inodes[i].data_block_num[(k \div BLOCK_SIZE) + 1] \in DOMAIN blocks
    /\ \A b \in DOMAIN blocks : DOMAIN blocks[b] = 1 .. BLOCK_SIZE
    /\ FILENAME_LEN \in Nat
    /\ direntries \in Seq(Range(direntries))
    /\ \A i \in DOMAIN direntries :
          direntries[i].len \in 0 .. FILENAME_LEN /\ direntries[i].inode \in DOMAIN inodes
    /\ Sizes \subseteq -INT_MAX - 1 .. INT_MAX

VARIABLES
    chain,      \* the processes of the terminal, each the parent of the next
    fd_arr,     \* the descriptors in each process control block
    arg_buf,    \* "none", "short", or "long": more than 12 characters
    opening,    \* the open() in progress: [stage, fd, entry]
    last,       \* history: the last system call's [op, fd, n, result, written]
    got,        \* history: what has been read from each descriptor
    status      \* "ok", or "wild" once the kernel calls through a bad pointer

vars == <<chain, fd_arr, arg_buf, opening, last, got, status>>

Fds == 0 .. MAX_FILES - 1
Tables == {"null", "stdin", "stdout", "rtc", "dir", "file"}
Unused == [ops |-> "null", inode |-> 0, pos |-> 0, flags |-> Free]
Idle == [stage |-> "none", fd |-> 0, entry |-> 1]

cur == chain[Len(chain)]
InUser == status = "ok" /\ chain # <<>> /\ opening = Idle

Init ==
    /\ chain = <<>>
    /\ fd_arr = [p \in Pids |-> [fd \in Fds |-> Unused]]
    /\ arg_buf = [p \in Pids |-> "none"]
    /\ opening = Idle
    /\ last = [op |-> "none", fd |-> 0, n |-> 0, result |-> 0, written |-> 0]
    /\ got = [p \in Pids |-> [fd \in Fds |-> <<>>]]
    /\ status = "ok"

AnswerTo(op, fd, n, r, written) ==
    last' = [op |-> op, fd |-> fd, n |-> n, result |-> r, written |-> written]
Answer(r) == AnswerTo("other", 0, 0, r, 0)

-----------------------------------------------------------------------------
(* read_dentry_by_name(): the first entry whose FILENAME_LEN characters      *)
(* agree; a longer name is refused.                                          *)
Lookup(name) == {i \in DOMAIN direntries : direntries[i].name = name}

(* Mutant: the next block one byte late. *)
NextByteLate(at) ==
    IF at[2] + 1 > BLOCK_SIZE THEN <<at[1] + 1, 0>> ELSE <<at[1], at[2] + 1>>

(* read_data() step by step: the block and the offset within it of byte i of *)
(* a read that starts at offset.                                             *)
NextByte(at) ==
    IF at[2] + 1 >= BLOCK_SIZE THEN <<at[1] + 1, 0>> ELSE <<at[1], at[2] + 1>>

ByteAt(inode, at) ==
    LET num == inodes[inode].data_block_num
        b == IF at[1] + 1 \in DOMAIN num THEN num[at[1] + 1] ELSE -1
    IN IF b \in DOMAIN blocks /\ at[2] + 1 \in DOMAIN blocks[b]
       THEN blocks[b][at[2] + 1] ELSE "garbage"

(* How many values a uint32_t has: length + offset is an unsigned sum. *)
UINTS == 2 * (INT_MAX + 1)

(* The clipped length. *)
Clipped(inode, offset, length) ==
    IF (length + offset) % UINTS > inodes[inode].length
    THEN inodes[inode].length - offset
    ELSE length

(* Where each of the n bytes from offset on is. *)
Walk(offset, n) ==
    LET walk[i \in 0 .. n] == IF i = 0 THEN <<offset \div BLOCK_SIZE, offset % BLOCK_SIZE>>
                              ELSE NextByte(walk[i - 1])
    IN  walk

(* read_data(): -1 or the bytes. *)
read_data(inode, offset, length) ==
    LET n == Clipped(inode, offset, length)
    IN  IF offset >= inodes[inode].length THEN <<>>
        ELSE [i \in 1 .. n |-> ByteAt(inode, Walk(offset, n)[i - 1])]

-----------------------------------------------------------------------------
(* execute(): the two descriptors that every process starts with.  The       *)
(* others stay as the last process with this pid left them.                  *)
Standard(table) ==
    [fd \in Fds |->
        IF fd = 0 THEN [ops |-> "stdin", inode |-> 0, pos |-> 0, flags |-> Busy]
        ELSE IF fd = 1 THEN [ops |-> "stdout", inode |-> 0, pos |-> 0, flags |-> Busy]
        ELSE table[fd]]

Taken == {chain[i] : i \in DOMAIN chain}

(* The free pid; execute() sets it up and the new process runs. *)
Execute(i, args) ==
    /\ InUser \/ (status = "ok" /\ chain = <<>> /\ args = "none")
    /\ direntries[i].program
    /\ Taken # Pids
    /\ LET pid == CHOOSE p \in Pids \ Taken : \A q \in Pids \ Taken : p <= q
       IN /\ chain' = Append(chain, pid)
          /\ fd_arr' = [fd_arr EXCEPT ![pid] = Standard(@)]
          /\ arg_buf' = [arg_buf EXCEPT ![pid] = args]
          /\ got' = [got EXCEPT ![pid] = [fd \in Fds |-> <<>>]]
    /\ Answer(0)
    /\ UNCHANGED <<opening, status>>

(* Not an executable, or no pid is free. *)
ExecuteFails(i) ==
    /\ InUser
    /\ ~direntries[i].program \/ Taken = Pids
    /\ Answer(-1)
    /\ UNCHANGED <<chain, fd_arr, arg_buf, opening, got, status>>

(* Mutant: the last descriptor is not closed. *)
ClosedAtHaltButLast(table) ==
    [fd \in Fds |-> IF fd + 1 < MAX_FILES THEN [table[fd] EXCEPT !.flags = Free] ELSE table[fd]]

ClosedAtHalt(table) == [fd \in Fds |-> [table[fd] EXCEPT !.flags = Free]]

(* halt() calls close_op through the table of every descriptor in use. *)
Closable(table) == \A fd \in Fds : table[fd].flags = Busy => table[fd].ops # "null"

End ==
    IF Closable(fd_arr[cur])
    THEN /\ fd_arr' = [fd_arr EXCEPT ![cur] = ClosedAtHalt(@)]
         /\ chain' = Front(chain)
         /\ UNCHANGED status
    ELSE /\ status' = "wild"
         /\ UNCHANGED <<fd_arr, chain>>

(* halt(), called, or by a signal that kills, in a system call or not. *)
Halt ==
    /\ status = "ok" /\ chain # <<>>
    /\ End
    /\ opening' = Idle
    /\ Answer(0)
    /\ UNCHANGED <<arg_buf, got>>

-----------------------------------------------------------------------------
Slot(p) == {fd \in Fds : fd_arr[p][fd].flags = Free}

(* open(): no such file, or no free descriptor. *)
OpenFails(name) ==
    /\ InUser
    /\ Lookup(name) = {} \/ Slot(cur) = {}
    /\ Answer(-1)
    /\ UNCHANGED <<chain, fd_arr, arg_buf, opening, got, status>>

(* open() up to flags = Busy; the type's table is set two statements later.  *)
OpenBegin(name) ==
    /\ InUser
    /\ Lookup(name) # {} /\ Slot(cur) # {}
    /\ LET i == CHOOSE j \in Lookup(name) : \A k \in Lookup(name) : j <= k
           fd == CHOOSE f \in Slot(cur) : \A g \in Slot(cur) : f <= g
       IN /\ opening' = [stage |-> "busy", fd |-> fd, entry |-> i]
          /\ fd_arr' = [fd_arr EXCEPT ![cur][fd].pos = 0, ![cur][fd].flags = Busy]
    /\ Answer(0)
    /\ UNCHANGED <<chain, arg_buf, got, status>>

Setup(d, i) ==
    [d EXCEPT !.inode = direntries[i].inode,
              !.ops = IF direntries[i].filetype = RTC_TYPE THEN "rtc"
                      ELSE IF direntries[i].filetype = DIR_TYPE THEN "dir" ELSE "file"]

(* The rest of open(). *)
OpenEnd ==
    /\ status = "ok" /\ opening.stage = "busy"
    /\ fd_arr' = [fd_arr EXCEPT ![cur][opening.fd] = Setup(@, opening.entry)]
    /\ got' = [got EXCEPT ![cur][opening.fd] = <<>>]
    /\ opening' = Idle
    /\ Answer(opening.fd)
    /\ UNCHANGED <<chain, arg_buf, status>>

ClosableByCall(fd) == fd > 1 /\ fd < MAX_FILES

Close(fd) ==
    /\ InUser
    /\ IF ClosableByCall(fd) /\ fd_arr[cur][fd].flags = Busy
       THEN /\ fd_arr' = [fd_arr EXCEPT ![cur][fd].flags = Free]
            /\ AnswerTo("close", fd, 0, 0, 0)
       ELSE /\ AnswerTo("close", fd, 0, -1, 0)
            /\ UNCHANGED fd_arr
    /\ UNCHANGED <<chain, arg_buf, opening, got, status>>

-----------------------------------------------------------------------------
(* Mutant: nbytes may be negative. *)
InRangeAnySize(fd, n) == fd >= 0 /\ fd <= MAX_FILES

(* The tests of read() and write() on their arguments. *)
InRange(fd, n) == fd >= 0 /\ fd <= MAX_FILES /\ n >= 0

(* What lies where fd_arr[fd].flags would be: fd_arr[MAX_FILES] is arg_buf,  *)
(* and its flags are the thirteenth to sixteenth characters.                 *)
InUse(fd) ==
    \/ fd = MAX_FILES /\ arg_buf[cur] = "long"
    \/ fd \in Fds /\ fd_arr[cur][fd].flags # Free

Refused(fd, n) ==
    /\ InUser
    /\ ~InRange(fd, n) \/ ~InUse(fd)
    /\ \E op \in {"read", "write"} : AnswerTo(op, fd, n, -1, 0)
    /\ UNCHANGED <<chain, fd_arr, arg_buf, opening, got, status>>

(* A call through file_op_table of the descriptor. *)
Accepted(fd, n, ops) ==
    /\ InUser
    /\ InRange(fd, n)
    /\ InUse(fd)
    /\ fd < MAX_FILES
    /\ fd_arr[cur][fd].ops = ops

Overrun(fd, n) ==
    /\ InUser
    /\ InRange(fd, n)
    /\ fd = MAX_FILES /\ InUse(fd)
    /\ status' = "wild"
    /\ Answer(0)
    /\ UNCHANGED <<chain, fd_arr, arg_buf, opening, got>>

Advance(pos, asked, result) == pos + result

(* read_file(): the end of the file, or an inode out of range, is 0. *)
ReadFile(fd, n) ==
    /\ Accepted(fd, n, "file")
    /\ LET d == fd_arr[cur][fd]
           bytes == read_data(d.inode, d.pos, n % UINTS)
       IN /\ fd_arr' = [fd_arr EXCEPT ![cur][fd].pos = Advance(@, n, Len(bytes))]
          /\ got' = [got EXCEPT ![cur][fd] = @ \o bytes]
          /\ AnswerTo("read", fd, n, Len(bytes), Len(bytes))
    /\ UNCHANGED <<chain, arg_buf, opening, status>>

(* A name of FILENAME_LEN characters has no terminator in the directory: in  *)
(* the copy, strlen() goes on over the bytes of its type.                    *)
StrLen(e) == e.len + (IF e.len = FILENAME_LEN /\ e.filetype # 0 THEN 1 ELSE 0)

(* read_dir()'s result. *)
ReturnedLength(e) == IF StrLen(e) > FILENAME_LEN THEN FILENAME_LEN ELSE StrLen(e)

(* Mutant: strcpy() instead of strcpy_filename(). *)
NameWrittenUncut(e) == StrLen(e) + 1

(* strcpy_filename(): at most FILENAME_LEN characters and a terminator. *)
NameWritten(e) == ReturnedLength(e) + 1

(* read_dentry_by_index(): the entry, or none past the last one. *)
EntryAt(index) == {direntries[i] : i \in {index + 1} \cap DOMAIN direntries}

(* read_dir(): the next name, however small the buffer. *)
ReadDir(fd, n) ==
    /\ Accepted(fd, n, "dir")
    /\ LET pos == fd_arr[cur][fd].pos
       IN \/ /\ EntryAt(pos) = {}
             /\ AnswerTo("read", fd, n, 0, 0)
             /\ UNCHANGED <<fd_arr, got>>
          \/ \E dentry \in EntryAt(pos) :
                /\ fd_arr' = [fd_arr EXCEPT ![cur][fd].pos = pos + 1]
                /\ got' = [got EXCEPT ![cur][fd] = Append(@, dentry.name)]
                /\ AnswerTo("read", fd, n, ReturnedLength(dentry), NameWritten(dentry))
    /\ UNCHANGED <<chain, arg_buf, opening, status>>

(* rtc_read() (Rtc), terminal_read() (LineInput), illegal_read(). *)
ReadDevice(fd, n) ==
    /\ \/ Accepted(fd, n, "rtc") /\ AnswerTo("read", fd, n, 0, 0)
       \/ Accepted(fd, n, "stdin") /\ \E k \in 0 .. n : AnswerTo("read", fd, n, k, 0)
       \/ Accepted(fd, n, "stdout") /\ AnswerTo("read", fd, n, -1, 0)
    /\ UNCHANGED <<chain, fd_arr, arg_buf, opening, got, status>>

(* write_file() and write_dir(), illegal_write(), rtc_write(), terminal_write(). *)
Write(fd, n) ==
    /\ \/ \E ops \in {"file", "dir", "stdin"} : Accepted(fd, n, ops) /\ AnswerTo("write", fd, n, -1, 0)
       \/ Accepted(fd, n, "rtc") /\ \E r \in {0, -1} : AnswerTo("write", fd, n, r, 0)
       \/ Accepted(fd, n, "stdout") /\ AnswerTo("write", fd, n, n, 0)
    /\ UNCHANGED <<chain, fd_arr, arg_buf, opening, got, status>>

(* getargs() into a buffer of the user's, or not. *)
GetArgs(n, ok) ==
    /\ InUser
    /\ IF ~ok \/ n <= 0 \/ arg_buf[cur] = "none" THEN Answer(-1) ELSE Answer(0)
    /\ UNCHANGED <<chain, fd_arr, arg_buf, opening, got, status>>

(* vidmap(): a pointer below 128MB is refused, one in the upper half of the  *)
(* range it accepts is not mapped and ends the process.                      *)
Vidmap(where) ==
    /\ InUser
    /\ CASE where \in {"null", "kernel"} -> Answer(-1) /\ UNCHANGED <<chain, fd_arr, status>>
         [] where = "program" -> Answer(0) /\ UNCHANGED <<chain, fd_arr, status>>
         [] where = "above" -> Answer(0) /\ End
    /\ UNCHANGED <<arg_buf, opening, got>>

(* syscall_linkage: a number that is no system call. *)
InvalidCall ==
    /\ InUser
    /\ Answer(-1)
    /\ UNCHANGED <<chain, fd_arr, arg_buf, opening, got, status>>

WildStep == status = "wild" /\ UNCHANGED vars

Names == {direntries[i].name : i \in DOMAIN direntries} \cup {"no such file"}

Next ==
    \/ \E i \in DOMAIN direntries :
          \/ \E args \in {"none", "short", "long"} : Execute(i, args)
          \/ ExecuteFails(i)
    \/ Halt
    \/ \E name \in Names : OpenFails(name) \/ OpenBegin(name)
    \/ OpenEnd
    \/ \E fd \in -1 .. MAX_FILES + 1 :
          \/ Close(fd)
          \/ \E n \in Sizes :
                \/ Refused(fd, n) \/ Overrun(fd, n)
                \/ ReadFile(fd, n) \/ ReadDir(fd, n) \/ ReadDevice(fd, n) \/ Write(fd, n)
    \/ \E n \in Sizes, ok \in BOOLEAN : GetArgs(n, ok)
    \/ \E where \in {"null", "kernel", "program", "above"} : Vidmap(where)
    \/ InvalidCall
    \/ WildStep

Spec == Init /\ [][Next]_vars

-----------------------------------------------------------------------------
TypeOK ==
    /\ chain \in Seq(Pids) /\ IsInjective(chain)
    /\ fd_arr \in [Pids -> [Fds -> [ops : Tables, inode : DOMAIN inodes, pos : Nat,
                                    flags : {Free, Busy}]]]
    /\ arg_buf \in [Pids -> {"none", "short", "long"}]
    /\ opening.stage \in {"none", "busy"}
    /\ last \in [op : {"none", "read", "write", "close", "other"}, fd : -1 .. MAX_FILES + 1,
                n : Int, result : Int, written : Nat]
    /\ status \in {"ok", "wild"}

(* A process starts with standard input and output and nothing else: its     *)
(* block has been used before, execute() resets two descriptors only, and    *)
(* whoever had the pid ended anywhere, by halt() or by a signal.             *)
(* The state is well formed besides: TypeOK, checked here once.             *)
FreePidsClosed ==
    /\ TypeOK
    /\ status = "ok" =>
          /\ \A p \in Pids \ Taken, fd \in Fds : fd_arr[p][fd].flags = Free
          /\ \A p \in Taken : \A fd \in {0, 1} :
                /\ fd_arr[p][fd].flags = Busy
                /\ fd_arr[p][fd].ops = IF fd = 0 THEN "stdin" ELSE "stdout"

Contents(inode) ==
    [k \in 1 .. inodes[inode].length |->
        blocks[inodes[inode].data_block_num[((k - 1) \div BLOCK_SIZE) + 1]]
              [((k - 1) % BLOCK_SIZE) + 1]]

Listing == [i \in DOMAIN direntries |-> direntries[i].name]

(* Whatever the sizes of the reads and whoever else reads, the bytes read    *)
(* through a descriptor are the first bytes of its file, in order, none      *)
(* twice and none left out, and a directory lists its names likewise         *)
(* (filesys.c 102-146, 181-192, 232-244).                                    *)
BytesInOrder ==
    status = "ok" =>
        \A p \in Taken, fd \in Fds :
            LET d == fd_arr[p][fd]
            IN d.flags = Busy /\ ~(p = cur /\ opening.stage = "busy" /\ opening.fd = fd) =>
                  /\ d.ops = "file" => IsPrefix(got[p][fd], Contents(d.inode))
                  /\ d.ops = "dir" => IsPrefix(got[p][fd], Listing)

(* A program that reads until it is given 0 bytes, as cat, grep and fish do, *)
(* has then read the whole file.                                             *)
EofMeansAll ==
    [][LET d == fd_arr[cur][last'.fd]
       IN last'.op = "read" /\ last'.n > 0 /\ last'.result = 0 /\ d.ops = "file" =>
              got[cur][last'.fd] = Contents(d.inode)]_vars

(* A name read into the 33 bytes that ls and grep provide fits with its      *)
(* terminator, and the place where they put the newline does too: a name of  *)
(* 32 characters, which the directory does not terminate, is no exception.   *)
NameFits ==
    [][last'.written > last'.result =>
           last'.written <= FILENAME_LEN + 1 /\ last'.result <= FILENAME_LEN]_vars

(* syscall.c 43, "close all files": a process can be ended at any time. *)
HaltCloses == [][status' = "ok" \/ ~Halt]_vars
=============================================================================
