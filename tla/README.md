# Bursztyn OS: a TLA+ verification project

Bursztyn OS is a monolithic x86-64 kernel for one CPU, with Ring 3 programs that
use some sixty system calls ("BWS"). This directory holds TLA+ models of its
core, TLC configurations that check them on small instances, and TLAPS proofs of
the properties that matter most. Names of operators follow the source (Polish);
line numbers in comments and in `PROJECT.json` refer to files under `src/`.

## 1. Inventory

### 1.1 Execution model

One CPU, no kernel threads. Three kinds of code change the state:

* **Ring 3 processes**, PID 1-15, each with a PML4 and a private Ring 0 stack.
  They enter the kernel with SYSCALL. `syscall.S` executes `sti` before it calls the
  dispatcher, so a system call can be interrupted anywhere except where it
  disables interrupts itself. A tick that interrupts a system call **does not
  switch** (`idt.cpp` 556-604), so system calls of two processes never interleave.
* **Interrupts**: timer, keyboard, mouse. They run with interrupts off.
* **PID 0**, the idle loop of `kernel.cpp` 1131-1143. It runs in Ring 0 with
  interrupts on, polls USB, redraws what is dirty, and *may be preempted anywhere*.

So the races of this system are: an interrupt between two steps of a system
call; anything at all between two steps of PID 0; and the order of calls.

### 1.2 Components

| component | source | state | operations | what makes it correct |
|---|---|---|---|---|
| scheduler | `scheduler.cpp` | process table, resources to free, CR3, TSS.rsp0, SYSCALL stack | tick, exit, wake-ups | context in step with the PID; resources freed once and only when unused; no starvation; slots come back |
| event queues | `scheduler.cpp` 85-97, 711-817 | one ring of 128 per PID | post with merging and eviction, take, wait, empty | FIFO of edges; a merge never crosses an edge; no lost wake-up |
| loader | `loader.cpp` | the slot under construction | reserve, read, allocate, map, publish, give back | no leak on any failure; nothing half-built runs; one instance of a program |
| interrupts and kernel entry | `idt.cpp`, `przerwania.S`, `syscall.S` | frames | dispatch, switch | a switch only where it is safe |
| system calls | `syscalls.cpp`, `pzb.h`, `bezpieczenstwo.cpp` | clipboard, drop targets, rights | some 60 calls | no stale PID, rights are checked |
| frames (PMM) | `pmm.cpp` | two bitmaps, a cursor | allocate and free one frame or a run | each frame once, only RAM, no refusal without cause |
| heap | `heap.cpp` | a list of blocks with headers | kmalloc, kfree, new | list sound and coalesced, exact ownership |
| page tables (VMM) | `vmm.cpp` | PML4 trees | map, split, walk, clone, destroy | every frame has one owner; a space is the kernel's with the process's pages on top |
| keyboard | `klawiatura.cpp` | decoder flags, a ring of bytes | IRQ 1, USB report, BWS 4 | decoder in step; ring is a queue |
| mouse | `mysz.cpp` | packet index, position | IRQ 12, USB report | resynchronisation |
| windows | `grafika.cpp` | windows, focus, capture | route input, focus, close | focus belongs to a live window |
| compositor | `skladacz_obrazu.cpp` | damage, buffers | compose | every change reaches the screen |
| file system | `psf.cpp` | RAM disk, dirty blocks | create, write, delete, move, copy, flush | bitmap agrees with the nodes; failure rolls back |
| network | `siec.cpp`, `e1000.cpp` | ARP, DHCP, DNS, one TCP connection, descriptor rings | poll, connect, send, receive | bytes in order; no hang |
| disk | `ahci.cpp` | one command slot | read, write | timeouts do not corrupt later commands |
| USB | `sterowniki/usb/` | xHCI rings | poll | cycle bits, one transfer pending |
| audio, clocks, ACPI, PCI, GDT, GOP | | | | set-up and register I/O |
| user programs | `programy/`, `shell.cpp`, ... | | | outside the kernel |

`PROJECT.json` lists them all with their status, and, under `hazards`, what in
this code a test would hardly reach.

### 1.3 How they interact

Interrupt handlers post events (`scheduler_dodaj_zdarzenie`) to the process with
the focus or, without one, put bytes into the keyboard ring, and wake the process
that waits. BWS 38 and BWS 4 wait. BWS 10 runs the loader, which takes a stack
from the heap and a PML4 from the VMM (and both take frames from the PMM). The
exit marks the process `KONCZACY`; a later tick in the context of *another*
process frees what it had. File system calls broadcast an event to all slots.

## 2. Modules

| module | models | lines of thought |
|---|---|---|
| `Planista` | scheduler: table, CPU, `PrzelaczKontekst`, cleanup, exit, wake-ups | operators over the shared variables |
| `Loader` (extends `Planista`) | `uruchom_program_z_pliku_impl` | one action per stage; each succeeds or fails |
| `Jadro` (extends `Loader`) | interrupts, system calls, PID 0; `Init`, `Next`, fairness, properties | the composition |
| `MCJadro` | constants, symmetry | runs `jadro`, `jadro_zywotnosc`, `jadro_usb` |
| `JadroDowody` | proofs about `Jadro` | |
| `KolejkaZdarzen`, `KolejkaDowody` | one event queue with its owner, proofs | the ring slot by slot |
| `FifoZdarzen` | the promise of an event queue | abstract specification |
| `Pmm`, `PmmDowody` | physical memory manager, proofs | bitmaps as sets |
| `Sterta`, `StertaDowody` | kernel heap, proofs | headers as a function of addresses |
| `Vmm` | page tables, with the loader and BWS 35 as their users | tables as functions of frames, calls as operators on them |
| `MCVmm` | `Vmm` alone | run `vmm_sterta` |
| `Klawiatura` | scan code decoder, and a keyboard as its environment | one action per interrupt |
| `BuforKlawiatury` | ring of bytes of the keyboard | PID 0 load by load and store by store |
| `Ahci` | reads and writes of the disk driver | driver and controller as two actors |
| `E1000` | descriptor rings of the network card | driver and card as two actors |
| `UrzadzeniaDowody` | proofs about `Klawiatura`, `BuforKlawiatury`, `Ahci` and `E1000` | |
| `Lematy` | facts several proofs need | smallest and greatest elements, arithmetic of rings |
| `MCPamiecUrzadzenia` | `Pmm`, `Sterta`, `Vmm`, `Klawiatura`, `BuforKlawiatury`, `Ahci`, `E1000` and `KolejkaZdarzen` side by side | run `pamiec_urzadzenia` |
| `Tcp`, `TcpDowody` | the TCP connection, the socket calls, the HTTP download, proofs | client, server and network |
| `StrumienTcp` | the promise of a connection | abstract specification |
| `Psf`, `PsfKopia` (extends `Psf`) | the file system; recursive copy | RAM disk and disk, block by block |
| `DrzewoPlikow` | the promise of the file system | abstract specification |
| `Skladacz` | the compositor | PID 0 step by step, system calls in between |
| `Okna`, `OknaDowody` | windows, focus, mouse capture, proofs | calls step by step, mouse interrupts in between; USB reports in steps of PID 0 |
| `MCSkladacz`, `MCOkna` | `Skladacz` and `Okna` side by side; `Okna` alone | runs `skladacz`, `okna_usb` |

`MC*` modules define constants, with a few exceptions. `MCPamiecUrzadzenia` and `MCSkladacz`
each put components that share no state side by side in one run: `czesc`, chosen at the start, is the
one that moves, and the others stand still, so the run is the sum of the runs of its parts. `MCOkna` leaves
out the PS/2 mouse. `MCPsf` keeps the tree that is seen
through paths in an auxiliary variable, so that TLC computes it once per state.
Operators called `Blad...` are mutated forms
of the operator that follows them: they show that a property fails when the code
is wrong in that way, and nothing else uses them.

### 2.1 Planista, Loader, Jadro

Variables are the fields of `tablica_procesow` (`stan`, `sciezka`, `przestrzen`,
`stos`, `kernel_rsp`, `cr3_procesu`), of `zasoby_do_zwolnienia` (`dz_przestrzen`,
`dz_stos`, `oczekuje`), the CPU (`aktualny_pid`, `cr3`, `tss_rsp0`,
`bezpieczny_stos_jadra`, `stos_cpu`), the sets of allocated stacks and PML4s,
the locals of the loader, and `krok`, the program counter of the running process:
`"ring3"`, inside BWS 38 (`"czekaj"`), inside the exit (`"zakoncz"`), waiting for its last
tick (`"hlt"`), or in a stage of the loader. `kernel_rsp` is the stack that holds the
saved frame: whether it lies inside the process's own stack is what
`proces_moze_byc_uruchomiony` checks.

| action | code |
|---|---|
| `PrzerwanieZegara` | timer handler and its TIMER events, then `WspolnaObslugaPrzerwan` 556-604, then `PrzelaczKontekst` with the cleanup, the choice, the switch or its rollback |
| `PrzerwanieKlawiatury` | IRQ 1 with no window in focus: a byte into the ring, `scheduler_wybudz_klawiature` |
| `ZdarzenieWejscia` | IRQ 1, IRQ 12 and USB reports that become an event |
| `PobierzZdarzenie`, `scheduler_czekaj_na_zdarzenie` | BWS 37 and 38, with interrupts on between the take and the wait |
| `scheduler_pobierz_klawisz_lub_zablokuj` | BWS 4, with interrupts off |
| `RozeslijZdarzenie` | broadcasts and single posts by system calls |
| `UruchomProgram`, `WczytajPlik`, `ZaalokujStos`, `UtworzPrzestrzen`, `ZmapujIOpublikuj` | BWS 10 and the loader's stages |
| `WejdzWZakonczenie`, `Zakoncz` | the exit |
| `UsbBajt`, `UsbCzytajStan`, `UsbZapiszGotowy` | PID 0 handles a USB key: the wake-up loop, a read and a write per slot |

Abstracted: an event queue is its length and the keyboard ring its number of
bytes (both have modules of their own), the contents of an image are usable or
not, rights and heap limits are left out. A process that was just marked as
blocked keeps running until the next tick, as in the code.

### 2.2 KolejkaZdarzen and FifoZdarzen

`wpisy`, `glowa`, `ogon` are those of `struct KolejkaZdarzen`. Types fall into
merged ones (`MYSZ_RUCH`, `TIMER`), edges a merge may not cross, and the rest. `FifoZdarzen`
is what the owner of a queue relies on: what was accepted and is not a motion or
timer event arrives once and in order. The refinement mapping drops motion and
timer events from the contents of the ring (`TrwaleDo`, a recursive function on the number of
events, so that it can be proved about).

### 2.3 Pmm

`mapa_dostepnosci` and `mapa_bitowa` are sets of frames. `wydane` (blocks in use), `wynik`
(the last answer) and `opis` (the memory map) are history variables. `ZwolnijRamke` is
called by the holder of a frame or with a frame nobody holds; freeing what
somebody else holds is a bug of the caller that no bitmap can detect and is
excluded. The search for a run is stated as "the first free run"; that the
loop of the code, `PetlaPoCiagach`, computes it is a checked property.

### 2.4 Sterta

`blok` maps addresses of headers to their fields; addresses are bytes, so a split,
an absorption and the validator are the arithmetic of the code. Sizes wrap at
`UINT64_MAX`. `Obejscie` is the walk of the validator, as a function of the number of steps taken, and
`maks_blokow` its limit. `uzywane` and `wynik_kmalloc` are history variables. Any pointer may be passed to
`kfree`.

### 2.5 Vmm

`s` holds the tables, each a function of its entries, and the free frames; the functions
of `vmm.cpp` are operators that take such a record and return another one, so that
what was allocated before a failure is still there after it. A call holds the lock with
interrupts off. Actions are the start of a program (clone, map text, data and stack,
destroy after a failure), the switch of CR3, the cleanup of an ended process, and BWS 35,
which maps its pages one by one and stops at the first that fails. Three levels of six
entries stand for the four levels of 512; the first process image lies inside a large
page of the kernel, as programs do at 6 MiB. `mapowania`, `wydane` and `zgubione` are history
variables; the last has the frames of failed mappings, which `ZmapujStrone`, returning
nothing, leaves to nobody. `RamkiMajaJednegoWlasciciela` accounts for every frame, and
`PrzestrzenZgodna` compares the walker's answer for every page of every space with what was
mapped there and with the kernel's own tables. The images are assumed to hide from the
kernel only frames that it uses at another address (`VmmZalozenia`): nothing in the
code checks that, it follows from where images are linked and from what the heap
takes first. That `Vmm` takes the lowest free frame is what the next-fit search of
`Pmm` amounts to as long as frames are taken one by one.

### 2.6 Klawiatura and BuforKlawiatury

`obsluga_przerwania_klawiatury` decodes one byte. The keyboard is the environment: it
sends make and break codes, E0 codes with the fake Shift codes around them, and the
six bytes of Pause. `Znak` says what a press should type in terms of the layout
and of Unicode, independent of the code's tables of UTF-8 bytes.
`BuforKlawiatury` has the ring with the interrupt as an atomic producer, BWS 4 as an
atomic consumer and PID 0 as a producer in three steps. `sprzet` is the set of
keyboards the machine has; it is chosen at the start from `Sprzet`.

### 2.7 Ahci and E1000

Both are a driver that polls and a device that works between any two of its steps.

`Ahci` has the one command slot (`ci`), the one DMA buffer and the controller, which
reads the command when it starts and touches the buffer when it moves the data.
`Przygotuj`, `Uruchom`, `Odmowa`, `Udana`, `BladZadania` and `LimitCzasu` are the stages and the
ends of `operacja_dysku`; `Przeslij`, `Zakoncz` and `Zawiedz` are the controller. A
command that was given up stays with the controller. The looks at the
status after the command has ended (`ahci.cpp` 1939-1966), which turn an end into a failure, are not kept apart
from `BladZadania`. `dozwolone` records what each
sector may hold in view of the answers so far. `nadpisany` marks the history of
finding 3, which `DyskZgodny` excepts.

`E1000` has both rings with the heads and tails of the card. A sender waits for its
descriptor or gives up, the link comes and goes, and the receiver hands a frame
to the stack before it gives its descriptor back. `RingiToKolejki` excepts a ring
whose every descriptor was filled while none was sent: its tail meets the head, the
card takes it for empty, the driver for full, and nothing is sent again.

### 2.8 Tcp and StrumienTcp

`faza` says in which call the caller is: connecting, between two socket calls, closing,
before the request of a download, or in its loop. `obsluz_tcp` handles one segment with
the code's order of tests: port, RST, SYN-ACK, data at the expected number, FIN. A
socket's buffer is moved to the front when the data would not fit otherwise; a segment
that cannot be stored is not acknowledged. Sequence numbers wrap at `ModSeq`. The
calls that wait end with an answer or when their time is over, at any moment.

The server and the network are the environment: segments are cut anywhere, sent in any
order and again, lost, or kept from one connection to the next; the server may reset
the connection. `StrumienTcp` is what a caller relies on: what it reads is a prefix of the
server's stream, and the end is reported at the end or after a reset; nothing is read after it. A download that
runs out of time with part of the answer is a success for the code (`siec.cpp` 4298),
although `siec.h` 625-632 promises false on a timeout; it has an answer of its own in
the model (`"sukces po czasie"`), and `HttpSukcesToCalosc` speaks of the others.

### 2.9 Psf, PsfKopia and DrzewoPlikow

The RAM disk is a record with its blocks, the list of changed blocks with its overflow
flag and the cursor of the block allocator; the operations of `psf.cpp` are operators that take such a
record and return another one, with the allocations, the early returns and the
rollbacks in the code's order. They run with interrupts off and are one step. The
flush that follows (`ZapiszBlok`) writes one block per step, and each write may fail.
`Awaria` loses the RAM disk at any moment; `inicjalizuj_psf` loads and validates the
disk, formats an empty one, or falls back to a RAM disk that is never written out.
`PsfKopia` adds the copy of a tree, with the removal of an unpublished copy.

`DrzewoPlikow` is a function from paths to files and directories on which an
operation acts as a whole or not at all; a restart may yield any tree. `KazdaAwaria` FALSE
keeps power on while a move is being written and after a failed write: these are the
cases of finding 4 and of blocks the disk has not got, in which the code, which has no
journal, promises nothing (`psf.cpp` 26-28).

### 2.10 Skladacz

The screen is a row of cells and a rectangle an interval, with the clipping, the
merging and the overflow of the list of rectangles computed as in the code.
System calls are single steps, since a tick inside one does not switch. A frame of
PID 0 goes step by step: for each layer take a noted move and store it, then take the damage,
take a snapshot, compose, present, end the snapshot, free what was put off. `wyscig` marks a
layer that was moved or made between the taking and the storing of a move: the second
call then notes a stale position, and the place in between may never be repainted.
`EkranAktualny` excepts that window and no other. A layer that is hidden is not found by a move, a
drawing or a refresh, and a noted move of it is dropped. The deferred buffers are taken at once
(`oproznij_odroczone`) and then freed (`Zwolnij`) and taken from the sum of bytes (`oddaj_bajty`) one by
one, with calls in between. `PamiecWarstw` says that a buffer of the
snapshot is freed only with the table of deferred buffers full, which is what the
code does, and that every byte counted against the limit is a layer's or that of a buffer
still to be given back.

### 2.11 Okna

A system call on windows is not preempted but can be interrupted, so `wywolanie` is the
sequence of steps that it, or the press of a USB mouse, has still to take, and every step removes its first element or
puts others in its place: `ZmienFocus` (compare, read the old focus), `ZapiszAktywny`,
`PowiadomBlur`, `PowiadomFocus` are `ustaw_focus_gui`; `ZnajdzNajwyzszeZ`, `ZapiszZ` are
`skladacz_obrazu_podnies_warstwe`; `Porzuc` with `ZnajdzNastepce` is the rest of hiding,
`bws_gui_usun_stan_procesu` and `bws_gui_zwolnij_mysz_procesu` the rest of closing. The
interrupt of a PS/2 mouse is one step: `MyszPowloki` while the mouse is with the old shell,
`Nacisniecie` when a button goes down, `Puszczenie` otherwise.

For a USB mouse `xhci.cpp` 475 calls the same `zaktualizuj_mysze` from the idle loop of PID 0, with
interrupts on and preemptible. There it is a sequence of steps (`usb.faza`): the owner of the mouse is
looked up (`UsbNapraw`) and stored (`UsbWlasciciel`), the buttons are compared (`UsbPrzyciski`), a press
clears the capture (`UsbNacisniecie`), finds the window that is hit (`Trafienie`), raises it and gives it
the focus in the steps above, and chooses the addressee (`Adresat`); a release ends the capture (`UsbPusc`);
the buttons are noted (`UsbZapisz`). Calls and PS/2 interrupts come between any two of them. The steps of a press
are in `wywolanie`; `Wywlaszcz` puts them aside for calls and `Wznow` takes them up again. Calls
inside a press can take the focus and the capture anywhere, or hide what was hit: see finding 6. `wyjatek` notes
that PID 0 was preempted inside a press, or that the PS/2 mouse pressed in it, and `AdresatZgodny` and
`NacisniecieTrafia` say nothing from then on. It also notes that the owner of an open overlay hid its layer
(BWS 41): the kernel allows it, the overlay stays open and would get every press
(`skladacz_obrazu.cpp` 1851-1863), and none of the programs that are there does it.

`widok` is what processes were last told,
`podniesienia` the order in which layers were raised, as a set of pairs, against which the numbers in
`z_order`, renumbered at a limit, are checked; `Skladacz` uses such an order in their place. `naruszony`
marks a PS/2 press inside a change of the focus or between the two steps of a raise. Without that
exception both properties fail: a window keeps the focus in its own view, or the window raised last is not on
top, until it is clicked on again.

## 3. Runs

| run | instance | states | shows |
|---|---|---|---|
| `jadro` | 4 slots (PID 0 and 3), 3 stacks, 3 PML4s, 2 paths, queues of 1, CR3 may fail, USB | 215 k | all safety properties of the composition |
| `jadro_zywotnosc` | 3 slots, no USB, fairness | 6 k | ready processes can be chosen and run; slots come back |
| `jadro_usb` | 3 slots, USB | violation | finding 1 |
| `pamiec_urzadzenia` | 8 frames of 4 bytes, runs up to 3, 4 maps, 3 sets of reservations; heap areas up to 30 bytes, header 4, alignment 2; 3 levels of 6 entries, 30 frames, 2 processes; keyboard ring of 6 with either keyboard; 20 keys, 4 held; 2 sectors, 2 commands given up; rings of 3 descriptors; an event ring of 4 slots, one type of each kind, 2 payloads | 718 k | frames, heap, page tables; keyboard, disk, network card; merging, eviction, refinement of the FIFO |
| `bufor_obie` | keyboard ring of 5, both keyboards | violation | finding 2 |
| `ahci_czas` | 2 sectors, 2 commands given up | violation | finding 3 |
| `vmm_sterta` | the page tables of `pamiec_urzadzenia` | violation | finding 5 |
| `tcp` | 2 connections, answers of 3 bytes, buffer of 2, numbers modulo 8 | 346 k | stream, downloads, arrival of the answer |
| `psf` | 3 nodes next to the root, 3 data blocks, paths of 2 names, 4 operations, 2 starts, 1 failing write | 105 k | file system and refinement of the tree |
| `psf_awaria` | the same, power may fail at any write | violation | finding 4 |
| `skladacz` | 2 layers, 7 cells, lists of 2, 4 calls; a desktop and 2 windows, 2 points, z up to 3, a PS/2 mouse with 2 buttons or a USB mouse with 1 | 4.4 M | compositor; focus, capture and presses |
| `okna_usb` | a desktop and a window, 2 points, a USB mouse | violation | finding 6 |

What the properties say is stated above each of them in the modules. Why the
bounds are enough: three user slots allow a process that runs, one that ends
and one under construction at once, with a resource fewer than needed on some
paths since stacks of ended processes are still allocated; a queue of length one is
empty or full, which is all that waking depends on; a ring of three events has a
first, a middle and a last one and wraps in every position; eight frames with runs
of up to three contain every relation of a run to the cursor, to the limit and to
other blocks; four blocks are one more than a split or an absorption touches;
thirty frames hold the kernel's heap and two processes, and run out, depending on what
the first one took, in the clone, the image, the stack or the heap of the second; four held keys are both Shifts, AltGr and a letter; three descriptors are one at
the device, one at the driver and one in between, and two commands given up are one
more than the race for the buffer needs; a socket buffer smaller than the answer fills up
and is moved, numbers wrap inside a connection, and a segment of the first connection
can arrive in the second; three nodes and three blocks run out in every operation that
takes one, and four operations make a directory, fill it, move or copy it and then look
at it; four calls are one more than any race of a frame with two calls on one layer;
two windows and a desktop are one that has the focus, one that takes it and one that is clicked on.
Symmetry is used for stacks, PML4s and paths in `jadro` and for names in `psf`, which
the models only compare, and in no run with a liveness property.

Deadlock is checked in every run in which the system never stops. In `tcp`, `psf` and
`skladacz` the number of connections, of operations and starts, and of calls is
bounded, and the model stops when they are used up.

**Fairness** (`FairSpec`). Weak fairness of the steps that complete a system call: nothing
but interrupts comes between them, and the code has no unbounded wait in those
it models. Weak fairness of PID 0's steps while it runs. *Strong* fairness of a tick
that may switch: the APIC timer is periodic, and a process cannot be inside a
system call at every tick. The code does not enforce the last part: a program
that did nothing but system calls, in phase with the timer, could keep the CPU.
With weak fairness instead, `GotowyDostajeProcesor` would fail for that reason.

In `Tcp`, fairness says what an answer needs to arrive: the server repeats what is not
acknowledged and the network does not lose everything (*strong* fairness of sending
from the first byte not acknowledged, of the arrival of the expected segment, of the
repeated answer to an old one, and of an ACK), and the caller keeps reading. It
does not say that a SYN or a request arrives: this stack never repeats one
(`siec.h` 677), so `OdpowiedzDociera` starts when the server has the request.

### Findings

1. `jadro_usb`: `scheduler_wybudz_klawiature` reads and writes a slot's state in two
   steps. PID 0 reaches it with interrupts on (USB keyboard). If it is preempted in
   between, a PS/2 key wakes the process, the process exits and the slot is cleaned up,
   then PID 0 stores `GOTOWY` into an empty slot. `scheduler.h` 69-70 says a `GOTOWY`
   process may be chosen; this one never is, and the slot is lost.
2. `bufor_obie`: the comment of `klawiatura.cpp` 69-70 calls the interrupt the only
   producer of the ring. PID 0 is a second one, with interrupts on: an IRQ 1
   between its load of the head and its publication loses an accepted byte.
3. `ahci_czas`: `operacja_dysku` fills the DMA buffer before it looks whether the slot is
   free. A read is given up; the next write fills the buffer; the read ends, overwrites
   it and frees the slot; the write is given to the controller, stores the data of the
   read and returns true, where `ahci.h` 110 says true is returned only if the whole
   operation was carried out correctly.
4. `psf_awaria`: a move writes the new entry and the removal of the old one in two
   blocks. With power lost in between, the disk holds both. `psf.cpp` 29 says the
   structure is checked rigorously before mounting, but `waliduj_metadane` looks at one directory
   at a time and accepts a node with two entries; deleting one leaves the other
   pointing to a free node.
5. `vmm_sterta`: BWS 35 counts a page whose mapping failed, so that the boundary of the heap
   moves behind it, and takes the allocation for complete if the count is the number
   of pages. With a frame for the last page and none for its table the call returns an
   address at which nothing is mapped; `syscalls.cpp` 2493-2494 says it is not published.
6. `okna_usb`: the comment of `grafika.cpp` 1953-1955 says the focus and the addressee of a press must be the
   same process, the one that was hit. With a USB mouse PID 0 takes the press in steps. It has given the
   focus to the window it hit (1959) and is preempted; another process makes its window and takes the
   focus (BWS 33), or the one that had the focus before the press has taken the capture (BWS 39) after
   line 1956; PID 0 reads both at line 1961, and the press goes to the wrong window. If the process that was hit ends or hides itself
   before PID 0 stores the focus (1860), the focus is left with a process without a window.

The first two disappear in the runs without the second keyboard; `jadro` shows that the
other safety properties survive the first one. `pamiec_urzadzenia` shows that disk operations
do what they answer without the history of the third, and that no frame is shared or lost beyond the failed
mappings of the fifth; `psf` that what is mounted is sound after any loss of power outside a move, as long as no write
has failed before it; `skladacz` that windows agree while no call comes into a press of the sixth.

## 4. Proofs

`tlapm` checks them for all values of the constants that satisfy the assumptions. Every theorem
below states, for any instance, a property that a run checks on a small one, except the four that state
an inductive invariant or a type invariant (`Niezmiennik`, `PoprawnoscTypow`, `NiezmiennikPmm`, `PmmTypy`).

**Assumptions.** `PlanistaZalozenia`, `PmmZalozenia`, `BuforZalozenia`, `KlawiszeZalozenia`, `TcpZalozenia` and `OknaZalozenia` are `ASSUME`s. `Sterta`, `E1000` and
`KolejkaZdarzen` have theirs as a definition that is a hypothesis of the
theorem and that the run's module assumes. They say what the code's
constants satisfy: sizes are positive and the low frames are no more than all frames; header
and smallest block of the heap are aligned; an area of the heap does not wrap around (`heap.cpp` 507-510 refuses one
that does); an event ring has two slots or more; the code of a key has seven bits and its release is not the byte E0 or E1, which
would begin another message; a socket's buffer holds a segment, and there are more sequence numbers than places in one answer, as with 2^32 of them and
an answer of a few megabytes; a process asks for a z order from `MIN_Z_ORDER` to `MAX_Z_ORDER`, as others are refused (`skladacz_obrazu.cpp` 968). Two theorems about `BuforKlawiatury` have the hypothesis `JedenProducent`, no
machine with both keyboards, and `GotowyJestWybieralny` has the hypothesis `~ USB`: findings 2 and 1
are what happens without them.

**Induction.** The library's induction theorems take an operator as a parameter, which the provers
cannot instantiate. Where a fact about all numbers is needed, the proof takes the smallest
counterexample instead (`Lematy`: `JestNajmniejsza`, `JestNajwieksza`, from the well-foundedness of `<` on the
naturals). Recursive functions are shown to satisfy their equations by gluing together their finite
approximations, each of which exists and is the only one.

**JadroDowody.** `Niezmiennik` proves `Spec => []Inw`. The properties are not inductive: that
CR3 is the running process's PML4 after a switch needs `cr3_procesu` and
`przestrzen` to agree for every runnable slot; that the cleanup does not free what is in
use needs that what is noted in `zasoby_do_zwolnienia` belongs to the slot that ended and
to no other; that a failure in the loader frees the right things needs the
locals to name what was taken at each stage. `Inw` is `TypeOK`, those agreements,
and the properties. Each action has a lemma; actions that change only states of
slots share one. From it follow `PoprawnoscTypow`, `KontekstZgodny`, `JedenWlasciciel`,
`RezerwacjaPilnowana`, `ZdarzenieNieGinie` and the action property `UzywaneNieZwalniane`.
Three more properties have invariants of their own on top of `Inw`. `KlawiszNieGinie`: the wake-up loop
of PID 0 goes upwards, so whoever it has passed was woken or blocked later with an empty ring.
`InstancjaJestJedna` (`InwSciezek`): an empty slot has no path, and a slot in the state `KONCZACY` still counts
while it, or PID 0 right after it, runs, since only then can the late store of a USB wake-up make it ready
again. `GotowyJestWybieralny` (`InwGotowych`): whoever is ready or waits for an event or a key has a saved
frame; a slot the loader has reserved has none and is in neither state. All but the last hold with USB and with failing CR3 switches.

**PmmDowody.** `NiezmiennikPmm` proves `Spec => []InwPmm`: types, exact ownership of frames, frames
below the limit only, and the justification of a refusal. From it follow `PmmTypy`,
`RamkaMaJednegoWlasciciela`, `OdmowaUzasadniona`. `ZarzadzaTylkoRamem` is about rounding: a zone of RAM
is rounded inwards and a reservation outwards, so every byte of a managed frame is RAM and none is
reserved. `PetlaJestPierwszymDopasowaniem` is about the loop that counts free frames: after
looking at frame i its counter is the length of the free run that ends at i, so the first time it
reaches n is the end of the first run of n free frames.

**StertaDowody.** `InwSterty` says that before the boot there is nothing, and afterwards the list is sound
(`Lad`: aligned blocks of the smallest size or more, linked in both directions, each
beginning where the one before ends, none inside another), that no two
free blocks are neighbours (`NieObok`), and the two properties about owners and refusals. A lemma each says what a
split, an absorption and a change of the state do to a sound list. Between the two absorptions of
`kfree` free neighbours may exist only at the block before the freed one; the second one removes that pair. `Walidator`
shows that the code accepts every sound list: each step of the walk goes up by a header and a smallest block at
least, so it ends before `maks_blokow` steps. `MiejsceToBlok`: since free blocks are not neighbours, a free range lies in one
block, so if no block fits there is no range. Hence `ListaPozostajeSpojna`, `WlascicielJestJeden`, `OdmowaJestUzasadniona`.

**KolejkaDowody.** The contents of the ring are described without remainders first: what each kind of
post does to the sequence (append, replace, remove one and append). `ScalanieJestZupelne` and `HistoriiSieNieZmienia` follow from the
search of the code, which goes backwards and stops at an edge. `KolejkaJestFifo` is the refinement of
`FifoZdarzen`: the sequence without merged events is unchanged by a merge and by an eviction,
grows at the end by an accepted event, and loses its head in a take.

**UrzadzeniaDowody.** Ring of the keyboard: `InwBufora` relates the slots between tail and head to what was accepted and not yet taken,
and the locals of PID 0 to the head while it stores a byte, which needs that nobody else produces.
`PierscienJestKolejka` and `ZnakiNieSaRozdzielane` follow. Disk, `OperacjeRobiaCoMowia` (`InwDysku`): what the controller
will do with the command that it holds, now or after it was given up, is among what each sector may hold. Card, `PierscienieToKolejki`:
descriptors fall into those of the driver and those of the card by their distance from the head, separately for the two rings.

Decoder of the keyboard: it has to be in step with the keyboard between messages, but it is interrupted byte by byte. The invariant
says where in a message it is: at rest, in the six bytes of Pause, after E0, or in a plain code; the flags of the decoder
agree with the keys that are down except for what the bytes still to come will change. `DekoderZgodny` follows, and with the table of
UTF-8 bytes, one lemma for each letter of the Polish layout, `ZnakZgodny`: what is put into the ring is the encoding of the letter
that the layout assigns to the key with the modifiers held.

**TcpDowody.** `Inw` gives every sequence number of the server its place in the stream: the acknowledgement number of the client names a place k,
exactly the bytes before k were taken into the receive buffer, in order, and whatever segment the network holds carries
the bytes of its own place. Repeated, reordered and lost segments are harmless because the numbers of one
stream are distinct. `NicNiePrzepadaZawsze`: nothing the client has acknowledged is lost before the program reads it. `HttpCalosc`: a
download that reports success has the whole answer. `StrumienZaimplementowany` is the safety part of the refinement: `Tcp` implements
`StrumienTcp`, in which a prefix of what the server sent is read, and nothing more after the end was reported.

**OknaDowody.** Both properties are about moments at which no call is under way or a press comes, so `InwOkien` has to say what holds in the middle
of a call, from the steps that it has still to take. `Wywolania`: a change of the focus is three steps, and what processes have
been told agrees with the new focus, with the old one or with none, according to how many of the three are left. `Adresaci`: the focus or the
capture may be with a process without a visible layer only while the call's next step takes it away or gives it the layer. `Kolejnosc`: visible
layers, apart from those the call has still to raise, have z orders in the order of raising, and the highest z order
that a raise has read still is the highest, unless a press came in between (`naruszony`). Numbering anew keeps the order because the new number of a
layer counts the layers below it, and of two such sets one is part of the other. `AdresatZawszeZgodny` is `InwOkien` at rest; `NacisniecieZawszeTrafia` follows
because the highest layer under the pointer is then the one raised last.

A press of the USB mouse goes through `wywolanie` like a call, and PS/2 interrupts that are not presses still come in between. `InwNacisku` says which of its steps are left: first
the hit test alone, then steps that raise the window t that was hit and give it the focus, and the choice of the addressee as the last one; either t
has the focus already, or a step that gives it the focus is still there, and there is no capture. So the addressee is t when it is chosen. Both
invariants hold up to the first exception (`wyjatek`), which is for good; the invariant that is proved, `InwRazem`, says that and that no press had gone astray by then.

**Model-checked only.** The liveness properties (fairness and ENABLED are outside the prover). The page tables
and the file system, whose walks and copies are recursive operators, with the refinement of `DrzewoPlikow`. The compositor,
whose sums of layers and of rectangles are folds with an operator as an argument, which the provers do not take.

## 5. Plan

1. (done) `Planista`, `Loader`, `Jadro`, `KolejkaZdarzen`, `Pmm`, `Sterta`, `Klawiatura`, `BuforKlawiatury`;
   proofs of `Jadro` and `Pmm`.
2. (done) `Tcp` with `StrumienTcp`, `Psf` and `PsfKopia` with `DrzewoPlikow`, `Skladacz`, `Ahci`, `E1000`, `Vmm`, `Okna`.
3. (done) Proofs: the event queue with its refinement, the key ring, the disk driver, the rings of `E1000`, the heap, the
   rest of `Jadro` and `Pmm`.
4. (done) Proofs: the connection with the safety part of the refinement of `StrumienTcp`, the decoder of the keyboard, the windows.
5. Drop targets and clipboard (`syscalls.cpp`), PIDs that end and are reused; `Prawa`: rights of processes (`pzb.h`).
6. `XhciRing` (cycle bits), `Mysz`, USB reports, `Zegar` (RTC, HPET), ARP, DHCP and DNS of `siec.cpp`.

## 6. Not modelled

Vendored mbedTLS, which makes up most of the lines of the repository (so the share of
lines the models stand for is small whatever is added), fonts and images; drawing; register I/O of hardware
set-up; CPU exceptions; the boot sequence, which runs alone; user programs, among them
the browser and the file manager. Several CPUs: the
kernel starts none. Of the modelled files: the parsing of packets and of images, checksums,
ARP, DHCP, DNS and UDP; rights and times of files; the cursor, the overlays and the desktop layer
of the compositor; set-up of the disk and of the network card.
