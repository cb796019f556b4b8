------------------------------ MODULE FileSys ------------------------------
(***************************************************************************)
(* The read-only file system (filesys.c) and the file descriptors of one   *)
(* task (do_open, do_close, do_read), and the program that do_execute      *)
(* loads from it.  Descriptor tables are per task and the files never      *)
(* change, so one task says it all.                                        *)
(*                                                                         *)
(* A byte is represented by its position in the file's blocks: position    *)
(* i < len is byte i of the file, a position beyond is padding of the last *)
(* block or the block after it.                                            *)
(* The image is external: its block numbers are in range, and the unused   *)
(* directory entries and block numbers are zero.                           *)
(***************************************************************************)
EXTENDS CmdLine

CONSTANTS
    DATABLOCK_SIZE,   \* bytes per block (4096)
    HeaderSize,       \* ELF_MAGIC_SIZE (4)
    Dentries,         \* the directory: a sequence of name, file_type, length and
                      \* whether the file begins with ELF_MAGIC
    Names,            \* the names that are opened
    Commands,         \* the commands that are executed, with their end of line
    Leftovers,        \* what earlier lines have left behind the command
    ArgSizes,         \* the nbytes arguments of getargs
    NumInodes,        \* file_sys->num_inodes
    MaxFd,            \* the last descriptor (7); 0 and 1 are the terminal
    ReadSizes,        \* the nbytes arguments of the reads
    SIGN_BIT          \* 2^31: nbytes is an int32_t, offset and len are uint32_t

\* The characters of the memory that commands are read from
Chars == {NUL, SPACE} \cup UNION {{m[i] : i \in DOMAIN m} : m \in Commands \cup Leftovers}

ASSUME FileSysAssumption ==
    /\ DATABLOCK_SIZE \in Nat \ {0}
    /\ HeaderSize \in Nat \ {0}
    /\ Dentries \in Seq([name : Seq(STRING), file_type : 0 .. 2, len : Nat, elf : BOOLEAN])
    /\ Len(Dentries) > 0 /\ Dentries[1].file_type = 1
    /\ SIGN_BIT \in Nat /\ \A i \in DOMAIN Dentries : Dentries[i].len < SIGN_BIT
    /\ \A i \in DOMAIN Dentries : Dentries[i].elf => Dentries[i].len >= HeaderSize
    /\ Commands \subseteq Seq(Chars) /\ Leftovers \subseteq Seq(Chars)
    /\ NumInodes \in Nat /\ NumInodes >= Len(Dentries)
    /\ MaxFd \in Nat /\ MaxFd >= 2
    /\ ReadSizes \subseteq -SIGN_BIT .. SIGN_BIT - 1 /\ ArgSizes \subseteq Nat

Fds  == 2 .. MaxFd
None == -1

NumDentries == Len(Dentries)
Lengths     == {Dentries[i].len : i \in DOMAIN Dentries}

\* The fops that do_open installs, by file_type
fops_of == [type \in 0 .. 2 |-> <<"rtc", "dir", "file">>[type + 1]]

VARIABLES
    files,     \* fd -> task_t.files[fd]
    image,     \* the program that do_execute started last: its length, image and
               \* arguments, and, as history, the memory that held its command
    got,       \* history: fd -> what its reads have returned, in order, as long as
               \* they were aligned
    ret,       \* history: fd -> the value of its last read
    aligned    \* history: fd -> every read was for at least one byte, and none
               \* started inside a block and went on into the next

vars == <<files, image, got, ret, aligned>>

Closed == [fops |-> "NULL", len |-> 0, offset |-> 0]

-----------------------------------------------------------------------------
(***************************************************************************)
(* read_data: its loop copies byte i - 1 in round i.  At a block boundary  *)
(* offset becomes 0 but i goes on.                                         *)
(***************************************************************************)
num_blocks(len) == len \div DATABLOCK_SIZE + 1

read_round(s, i, block_length) ==
    LET byte == s.page * DATABLOCK_SIZE + ((i - 1 + s.offset) % DATABLOCK_SIZE)
    IN  IF s.ret # None THEN s
        ELSE IF (i + s.offset) % DATABLOCK_SIZE # 0
        THEN [s EXCEPT !.out = Append(@, byte)]
        ELSE [page |-> s.page + 1, offset |-> 0, out |-> Append(s.out, byte),
              ret |-> IF s.page + 1 = block_length THEN i - 1 ELSE None]

\* The state of the loop after each of its rounds
read_loop(len, offset, length) ==
    LET loop[i \in 0 .. length] ==
            IF i = 0
            THEN [page |-> offset \div DATABLOCK_SIZE, offset |-> offset % DATABLOCK_SIZE,
                  out |-> <<>>, ret |-> None]
            ELSE read_round(loop[i - 1], i, num_blocks(len))
    IN  loop

\* Mutant: the page is not advanced
read_data_SamePage(len, offset, length) ==
    LET page == offset \div DATABLOCK_SIZE
    IN  [ret |-> length,
         out |-> [i \in 1 .. length |->
                    page * DATABLOCK_SIZE + ((i - 1 + offset) % DATABLOCK_SIZE)]]

\* Mutant: the number of blocks is rounded down
read_data_RoundDown(len, offset, length) ==
    LET last == (len \div DATABLOCK_SIZE) * DATABLOCK_SIZE
        n    == IF offset + length > last THEN last - offset ELSE length
    IN  IF offset >= last THEN [ret |-> -1, out |-> <<>>]
        ELSE [ret |-> n, out |-> [i \in 1 .. n |-> offset + i - 1]]

read_data(len, offset, length) ==
    LET end == read_loop(len, offset, length)[length]
    IN  IF offset \div DATABLOCK_SIZE >= num_blocks(len) THEN [ret |-> -1, out |-> <<>>]
        ELSE [ret |-> IF end.ret = None THEN length ELSE end.ret,
              out |-> end.out]

\* read_dentry_by_name: the number of the entry, 0 if there is none.  Any name
\* that begins with a dot is the directory.
read_dentry_by_name(fname) ==
    LET found == {i \in DOMAIN Dentries : Dentries[i].name = fname}
    IN  IF Char(fname, 1) = "." THEN 1
        ELSE IF found = {} THEN 0
        ELSE CHOOSE i \in found : \A j \in found : i <= j

\* The int32_t or the sum x as a uint32_t
Unsigned(x) == x % (2 * SIGN_BIT)

Clip(n, len) == IF n > len THEN len ELSE n

-----------------------------------------------------------------------------
Init ==
    /\ files = [fd \in Fds |-> Closed]          \* init_task
    /\ image = [len |-> 0, data |-> <<>>, name |-> <<>>, args |-> <<NUL>>, memory |-> <<>>]
    /\ got = [fd \in Fds |-> <<>>]
    /\ ret = [fd \in Fds |-> None]
    /\ aligned = [fd \in Fds |-> TRUE]

\* do_open takes the lowest free descriptor; with none free it returns -1
do_open(fd, fname) ==
    LET i == read_dentry_by_name(fname) IN
    /\ i # 0
    /\ files[fd].fops = "NULL"
    /\ \A e \in Fds : e < fd => files[e].fops # "NULL"
    /\ files' = [files EXCEPT ![fd] =
          [fops |-> fops_of[Dentries[i].file_type], len |-> Dentries[i].len, offset |-> 0]]
    /\ got' = [got EXCEPT ![fd] = <<>>]
    /\ ret' = [ret EXCEPT ![fd] = None]
    /\ aligned' = [aligned EXCEPT ![fd] = TRUE]
    /\ UNCHANGED image

\* Mutant: offset is left as it is
do_close_KeepOffset(fd) ==
    /\ files[fd].fops # "NULL"
    /\ files' = [files EXCEPT ![fd].fops = "NULL"]
    /\ UNCHANGED <<image, got, ret, aligned>>

do_close(fd) ==
    /\ files[fd].fops # "NULL"
    /\ files' = [files EXCEPT ![fd] = Closed]
    /\ got' = [got EXCEPT ![fd] = <<>>]
    /\ ret' = [ret EXCEPT ![fd] = None]
    /\ aligned' = [aligned EXCEPT ![fd] = TRUE]
    /\ UNCHANGED image

\* A read that starts at or beyond the end returns 0 and moves nothing
file_read_eof(fd) ==
    /\ files[fd].fops = "file"
    /\ files[fd].offset >= files[fd].len
    /\ ret' = [ret EXCEPT ![fd] = 0]
    /\ UNCHANGED <<files, image, got, aligned>>

\* nbytes > len compares as unsigned, so a negative nbytes asks for len bytes.
ReadLength(fd, nbytes) == Clip(Unsigned(nbytes), files[fd].len)

\* file_read: the offset moves by nbytes, whatever read_data returned: with a
\* negative nbytes backwards, below 0 to the far end of a uint32_t
file_read(fd, nbytes) ==
    LET f      == files[fd]
        length == ReadLength(fd, nbytes)
        r      == read_data(f.len, f.offset, length)
        inside == f.offset % DATABLOCK_SIZE
        plain  == /\ aligned[fd] /\ nbytes > 0
                  /\ inside = 0 \/ inside + length <= DATABLOCK_SIZE
    IN
    /\ f.fops = "file"
    /\ f.offset < f.len
    /\ ret' = [ret EXCEPT ![fd] = r.ret]
    /\ files' = IF r.ret = -1 THEN files
                ELSE [files EXCEPT ![fd].offset = Unsigned(@ + nbytes)]
    /\ aligned' = [aligned EXCEPT ![fd] = plain]
    /\ got' = [got EXCEPT ![fd] =
                  IF plain THEN @ \o SubSeq(r.out, 1, r.ret) ELSE <<>>]
    /\ UNCHANGED image

\* Mutant: the offset moves first
directory_read_Early(fd) ==
    LET i == files[fd].offset + 1 IN
    /\ files[fd].fops = "dir"
    /\ i <= NumInodes
    /\ files' = [files EXCEPT ![fd].offset = i]
    /\ ret' = [ret EXCEPT ![fd] = IF i < NumDentries THEN 1 ELSE 0]
    /\ got' = [got EXCEPT ![fd] = IF i < NumDentries THEN Append(@, i) ELSE @]
    /\ UNCHANGED <<image, aligned>>

\* directory_read: one name per call; the name of an unused entry is empty, so
\* its length, the value returned, is 0 (a used one's is represented by 1)
directory_read(fd) ==
    LET i == files[fd].offset IN
    /\ files[fd].fops = "dir"
    /\ i <= NumInodes
    /\ files' = [files EXCEPT ![fd].offset = i + 1]
    /\ ret' = [ret EXCEPT ![fd] = IF i < NumDentries THEN 1 ELSE 0]
    /\ got' = [got EXCEPT ![fd] = IF i < NumDentries THEN Append(@, i) ELSE @]
    /\ UNCHANGED <<image, aligned>>

\* directory_read past the last inode number
directory_read_end(fd) ==
    /\ files[fd].fops = "dir"
    /\ files[fd].offset > NumInodes
    /\ ret' = [ret EXCEPT ![fd] = 0]
    /\ UNCHANGED <<files, image, got, aligned>>

\* load_program returns -1 for these
CannotLoad(fname) ==
    LET i == read_dentry_by_name(fname)
    IN  \/ i = 0
        \/ Dentries[i].file_type # 2
        \/ read_data(Dentries[i].len, 0, HeaderSize).ret # HeaderSize
        \/ ~Dentries[i].elf

\* It reads "to the end": length is the largest uint32_t, here more than the
\* file's blocks hold.
load_program(fname) ==
    LET len == Dentries[read_dentry_by_name(fname)].len
    IN  read_data(len, 0, len + 2 * DATABLOCK_SIZE).out

\* The task that do_execute and load_program_to_task make of a command
Task(memory) ==
    LET line == do_execute_parse(memory)
    IN  [len |-> Dentries[read_dentry_by_name(line.programName)].len,
         data |-> load_program(line.programName),
         name |-> line.programName,
         args |-> line.argsBuffer,
         memory |-> memory]

Lines == {command \o old : command \in Commands, old \in Leftovers}
Tasks == {Task(memory) : memory \in
             {m \in Lines : ~CannotLoad(do_execute_parse(m).programName)}}

\* A command that cannot be executed changes nothing here.
do_execute(task) ==
    /\ image' = task
    /\ UNCHANGED <<files, got, ret, aligned>>

Next ==
    \/ \E fd \in Fds :
          \/ \E fname \in Names : do_open(fd, fname)
          \/ do_close(fd)
          \/ file_read_eof(fd) \/ directory_read(fd) \/ directory_read_end(fd)
          \/ \E nbytes \in ReadSizes : file_read(fd, nbytes)
    \/ \E task \in Tasks : do_execute(task)

Spec == Init /\ [][Next]_vars

-----------------------------------------------------------------------------
\* The descriptors have their types, and a closed one keeps no offset that the
\* next file opened there would start from.
TypeOK ==
    /\ files \in [Fds -> [fops : {"NULL", "rtc", "dir", "file"}, len : Lengths \cup {0},
                          offset : Nat]]
    /\ image.len \in Lengths \cup {0} /\ image.data \in Seq(Nat)
    /\ \A c \in {"name", "args", "memory"} : image[c] \in Seq(Chars)
    /\ got \in [Fds -> Seq(Nat)]
    /\ ret \in [Fds -> Int]
    /\ aligned \in [Fds -> BOOLEAN]
    /\ \A fd \in Fds : files[fd].fops = "NULL" => files[fd].offset = 0

\* Successive reads of a file return its bytes in order, each one once, and
\* padding only after the last, whatever the sizes, as long as each read either
\* starts at a block's first byte or stays inside its block.
ReadsInOrder ==
    \A fd \in Fds : files[fd].fops = "file" /\ aligned[fd] =>
        \A i \in DOMAIN got[fd] : i <= files[fd].len => got[fd][i] = i - 1

\* Such reads return 0 only when the whole file has been returned.
WholeFileAtEof ==
    \A fd \in Fds :
        files[fd].fops = "file" /\ aligned[fd] /\ ret[fd] = 0
            => Len(got[fd]) >= files[fd].len

\* Reads of the directory return 0 only when every name has been returned, once
\* and in order.
DirectoryListed ==
    \A fd \in Fds : files[fd].fops = "dir" /\ ret[fd] = 0 =>
        got[fd] = [i \in 1 .. NumDentries |-> i - 1]

\* load_program puts every byte of the file in its place, also when the length
\* is a multiple of the block size and the loop runs into one block more.
LoadsWholeProgram ==
    \A i \in 1 .. image.len : i \in DOMAIN image.data /\ image.data[i] = i - 1

\* The program that execute starts is the one its command names, and getargs
\* with room to spare gives it the other words, separated by single spaces,
\* and the terminal NUL: nothing of an earlier line, although after trailing
\* spaces do_execute reads on past the end of the command.
RunsCommandLine ==
    LET arguments == ArgumentsOf(image.memory) IN
    Plain(image.memory) =>
        /\ image.name = ProgramOf(image.memory)
        /\ \A nbytes \in ArgSizes : nbytes > Len(arguments) + 1 =>
              do_getargs(image.args, nbytes) = [ret |-> 0, buf |-> Append(arguments, NUL)]

-----------------------------------------------------------------------------
(* What the code's comments promise of a read and the code breaks: no run  *)
(* checks these two, and TLC refutes them.                                 *)

\* What a read of fd for nbytes bytes returns from here
Returned(fd, nbytes) ==
    LET r == read_data(files[fd].len, files[fd].offset, ReadLength(fd, nbytes))
    IN  SubSeq(r.out, 1, r.ret)

Readable == {fd \in Fds : files[fd].fops = "file" /\ files[fd].offset < files[fd].len}

\* Every read returns the bytes of the file from the offset on, whatever its
\* size ("Reads data from file into buf", read_data's header).
ReadsFromOffset ==
    \A fd \in Readable, nbytes \in {n \in ReadSizes : n > 0} :
        \A i \in DOMAIN Returned(fd, nbytes) :
            files[fd].offset + i <= files[fd].len
                => Returned(fd, nbytes)[i] = files[fd].offset + i - 1

\* No read returns more bytes than the file has left ("data should be read to
\* EOF or end of buffer provided", do_read's header).
ReadsStopAtEof ==
    \A fd \in Readable, nbytes \in {n \in ReadSizes : n > 0} :
        files[fd].offset + Len(Returned(fd, nbytes)) <= files[fd].len
=============================================================================
