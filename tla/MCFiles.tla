------------------------------ MODULE MCFiles ------------------------------
EXTENDS Files

(* The directory itself, the RTC, a program, a file of three bytes in two    *)
(* blocks with the longest name, and an empty file.                          *)
Image == <<
    [name |-> ".", len |-> 1, filetype |-> DIR_TYPE, inode |-> 0, program |-> FALSE],
    [name |-> "rtc", len |-> 3, filetype |-> RTC_TYPE, inode |-> 0, program |-> FALSE],
    [name |-> "long", len |-> 4, filetype |-> FILE_TYPE, inode |-> 1, program |-> TRUE],
    [name |-> "e", len |-> 1, filetype |-> FILE_TYPE, inode |-> 2, program |-> FALSE] >>

Inodes == [i \in 0 .. 2 |->
    IF i = 1 THEN [length |-> 3, data_block_num |-> <<1, 0>>]
    ELSE [length |-> 0, data_block_num |-> <<>>] ]

Blocks == [b \in 0 .. 1 |-> IF b = 0 THEN <<"c", "d">> ELSE <<"a", "b">>]

(* INT_MIN is not among them: -1 is as negative as any. *)
NBytes == {-1, 1, 7}

(* What a free descriptor holds is overwritten before it is read, but for    *)
(* whether its table is set; so is what a free pid has for arguments.        *)
View == <<chain, opening, status, [p \in Taken |-> arg_buf[p]],
          [p \in Pids |-> [fd \in Fds |->
              IF fd_arr[p][fd].flags = Free THEN <<fd_arr[p][fd].ops = "null">>
              ELSE <<fd_arr[p][fd], got[p][fd]>>]]>>
=============================================================================
