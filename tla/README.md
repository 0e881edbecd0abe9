# C-Comenta: a verification project

TLA+ models, TLC checks and TLAPS proofs for C-Comenta, a distributed simulation of an
operating system in C: a kernel, a CPU, a memory and any number of I/O interfaces, one
program each, connected by TCP. Names in the modules are those of the code (in Spanish).

## 1. Inventory

| Component | Code | State it keeps | Operations |
|---|---|---|---|
| Planning | `kernel/src/planificador_largo_plazo.c`, `planificador_corto_plazo.c`, `main.c` | queues NEW, READY, READY+, EXIT; six semaphores; `pid_en_ejecucion`; the clock of RR/VRR | NEW→READY, READY→EXEC, the handling of every motive the CPU returns a PCB with, pause, resume |
| Resources | `kernel/src/recursos.c` | a counter and a queue per resource, the list of allocations | WAIT, SIGNAL, release of everything at the end of a process |
| Console | `kernel/src/consola.c` | `ultimo_pid`, the command under way | start, kill, pause, resume, change of the degree, scripts |
| Interfaces | `kernel/src/interfaces.c`, `utilidades.c` | the dictionary and the list of names of those connected; one blocked queue and semaphore per interface | register, serve, disconnect; send each kind of operation |
| Connection with the memory | `planificador_largo_plazo.c`, `main.c`, `memoria/src/atender_kernel.c` | a socket and its mutex, shared by every thread that starts or ends a process | ask and wait, tell and not wait |
| CPU | `cpu/src/main.c`, `executer.c`, `decoder.c` | the PCB executing, pending interrupts | fetch, decode, execute, check interrupts |
| MMU and TLB | `cpu/src/mmu.c` | the TLB | translate, read and write across pages, drop entries |
| Memory | `memoria/src/` | processes with their page tables, the bitmap of frames, user memory | create, free, resize, look up a page, read, write |
| DialFS | `entradasalida/src/dialfs.c` | blocks, bitmap, one metadata file per file | create, delete, truncate (with compaction), read, write |
| Other interfaces | `entradasalida/src/generica.c`, `stdin.c`, `stdout.c` | none | one request, one answer |
| Utils | `utils/src/utils/` | queues, lists and dictionaries with a mutex each; packets; PCBs | push, pop, peek; send, receive |

How they interact. The kernel has four kinds of threads: the long-term planner (PLP), the
short-term planner (PCP), one `atender_io` per interface and the console; under RR and VRR
also one clock per dispatch. They share the queues (each with its own mutex), the counting
semaphores `sem_elementos_en_new`, `sem_elementos_en_ready`, `procesos_esperando` and
`sem_multiprogramacion`, and four permissions (binary semaphores) that the console takes to
pause the planning: `entrada_a_ready`, `entrada_a_exec`, `manejo_desalojo_cpu` and
`interrupcion_rr`. PCBs travel to the CPU and back over one connection and interrupts over
another; the kernel, the CPU and the interfaces each ask the memory over their own.

What is hard here: a planner looks at the head of a queue, waits for a permission and looks
again, and a kill or another thread may have changed the queue in between; the semaphores
count elements of queues that the console shortens without touching them; the console runs
code of the planners (`eliminar_proceso`) with a queue's mutex in its hands; a counter stands
for the length of a queue; the degree of multiprogramming is a semaphore plus a debt; a clock
rings for a process that may no longer be there; an interface leaves, or comes back under the
same name, while two threads hold pointers to it, and eliminates who was blocked on it with no
regard for the pause or for the planners; answers of the memory are read by whoever
comes next. None of it has tests. `PROJECT.json` lists each hazard at its line.

What correct means, per component:

- Planning: every process is in exactly one place; every process that can advance has a
  semaphore unit that brings a thread to it; a pause never deadlocks and freezes all but what
  an interface that leaves does.
- Resources: a negative counter is the number of processes waiting, as long as no interface
  leaves; nobody that ended holds anything.
- Console: a kill leaves counters, queues and degree as if the process had ended by itself.
- Interfaces: a process goes on when, and only when, its interface did what the instruction
  says, and one that leaves takes every process in its queue to EXIT, once.
- Connection with the memory: every message is understood, every wait is answered, and what
  ends is freed.
- CPU and dispatch: a program has the effect of its instructions in order, however often it
  loses the CPU; a quantum ends the execution it was given for.
- MMU, TLB, memory: a process sees its own address space and nobody else's.
- DialFS: a file is what was last written to it, whatever happens to the others.

## 2. How the modules correspond to the code

`PROJECT.json`, under `map`, gives the lines each definition stands for.

| Module | Models | State and steps |
|---|---|---|
| `Squeue` | `squeue.c` | A queue is a sequence; push, pop, peek and the console's walk are operators: each takes the queue's mutex around one access, so it is one step. |
| `Planificacion` | The kernel: both planners, resources, console, interfaces until they leave and what they eliminate then | `colas` are all the queues; `mano` the PCBs that are in none (popped by a thread, or in the CPU); the semaphores are counters with the names of the code; each thread has a program counter (`plp_pc`, `pcp_pc`, `io_pc`, `con_pc`) and its locals. An action is the code between two points where another thread can see or change something: the `Plp...`, `Pcp...`, `Io...` and `Con...` actions. |
| `PlanificacionInv`, `DespachoInv`, `InterfacesInv` | | The inductive invariants of those modules, each a conjunction of named parts; the ones of `Conexion` and `Memoria` are in the modules. |
| `Despacho` | A dispatch: the PCP with the CPU, the clocks of RR/VRR and the operator's interrupt | PCBs with program counter, registers and quantum left; `relojes` are the threads of the clocks, `ultimo` the one `cancelar_ultimo_reloj` points into; `dispatch_...` and `interrupt` the connections; `pcb`, `cpu_pc`, `interrupts` the CPU. One action per instruction kind, per step of a clock (asleep, past its check of `cancelado`, past its interrupt) and per stop of the PCP between two uses of shared memory. |
| `Programa` | What a program promises, instruction by instruction, for processes with no scheduler | `Despacho` is shown to implement it. |
| `Conexion` | The connection of the kernel with the memory | `a_memoria`, `a_kernel`: typed messages in order; the mutex; `mem_pc`: where `atender_kernel` is in a request. One action per message sent or received. |
| `Operaciones` | An I/O instruction from its words to the interface that does it | Operators: `decode`, `Empaqueta` (CPU), `Reenvia` (kernel), `Interpreta` (interface), and `Pedido`, what the words ask for. |
| `Interfaces` | `interfaces.c`, `manejar_io`, the console's walk, the loop of an interface | Per connection, its name, thread (`hilo_pc`) and `t_interfaz`; the dictionary and the list of names apart, as in the code; `heap`, the `t_bloqueado_io` at each address. An interface connects, stops at any point and connects again. |
| `Mmu` | The TLB of `mmu.c` | Operators on a sequence of entries: look up, save, both replacement algorithms, invalidate. |
| `Memoria` | `memoria/src`, the MMU's accesses, STDIN and STDOUT | `procesos` (page tables), `bitmap_marcos`, `memoria_de_usuario` in the memory; `tlb_entries`, `acceso` (the instruction under way and its locals) in the CPU; `io` (blocks translated, checked, copied) in the interfaces; `estado` is what the kernel does with each process, as far as memory sees it. |
| `DialFS` | `dialfs.c` | `metadata`, `bitmap`, `bloques`, and the locals of a compaction. A request is one step, a compaction one step per file. |
| `Almacen` | What files and address spaces promise | `contenido`: a sequence of bytes per name. `DialFS` and `Memoria` are shown to implement it. |
| `MemoriaHistoria` | | `Memoria` with a history variable, `usada`: when each page was translated last. LRU is stated with it. |
| `MC...` | | Constants and symmetry for TLC. |
| `SqueueLemas`; `PruebaPlanificacion` and `PruebaCuentas` (both on `Planificacion`), `PruebaMemoria`, `PruebaDialFS`, `PruebaConexion`, `PruebaInterfaces`, `PruebaDespacho` | | Lemmas and theorems. |

Operators with a name such as `A_B` are the operator `A` with a plausible slip: no
specification uses them. `PROJECT.json` names, for each property of a passing run, one that
the property catches.

How they fit. `Planificacion` is the centre: it sees the CPU, the memory and the devices
through their answers only, any motive at any time. The others open one of those answers, and
see the rest of the kernel through what it can do to them:

- `Despacho` opens PcpDespacha, PcpRecibe and the FIN_QUANTUM. A process starts in READY; a
  blocked one may be unblocked at any time, by an interface only out of a pause. The operator
  takes the four permissions in one step, when the PCP is not sending a PCB: the four waits one
  by one are in `Planificacion`. A clock interrupts, and the PCP dispatches and handles what
  comes back, only out of a pause.
- `Conexion` opens the load of a process (PlpEncola) and what `eliminar_proceso` tells the
  memory. A process in READY may be eliminated once, by any thread. The end of
  a process whose path could not be opened kills the memory, and so does its first fetch.
- `Interfaces` opens PcpIo and the Io actions. It has the pause, in one step as in `Despacho`: a
  kill walks the interfaces in the middle of one, with the PCP out of `manejar_io`, and an
  interface unblocks nobody while it lasts, which may be for ever. What an interface that leaves
  does to resources, the degree and READY is in `Planificacion`.
- `Memoria` sees the kernel through `estado`: a process executes alone, may be taken out of the
  CPU between instructions, and may end or be killed wherever the kernel can do it.
- `Operaciones` says what `Memoria` and `DialFS` are asked for.

## 3. The runs

Passing runs; every property is violated by a mutant of the code under the same `.cfg`.

| Run | Instance | Shows |
|---|---|---|
| `plan_completo` | RR, 2 processes, 1 resource of 1 instance (up to 2), 1 interface that may disconnect in any operation, degree 2 | The invariant of the proofs (`IInv`); one place per process (`UnSoloLugar`); no lost wake-up (`AvisosReady`, `AvisosNewEIo`); until an interface leaves, counters against queues (`BloqueadosContados`); nobody that ended holds a resource (`SinAsignacionesHuerfanas`); what a pause freezes and what an interface that leaves still moves (`PausaCongela`) |
| `plan_grado` | RR, 2 processes, degree from 0 to 2, one reduction pending, fair threads; no resources nor interfaces | `ConservacionGrado`: semaphore + active processes = degree + debt; `ReadyAvanza`, `LaPausaTermina`; no deadlock |
| `despacho` | VRR, quantum of 1 tick, 2 clocks alive, 2 processes: one loops for ever, the other comes back from an interface, waits, overflows, ends or runs past its end; the operator pauses, for good or not, and finishes one | `ImplementaPrograma`: whoever interrupts it and however late, each program has the effect of its instructions in order, and each request is handled once; `CancelarSinSegfault`: the PCP never writes to a clock that is gone; `QuantumRestante`: no dispatch without quantum, none with more than what is left; `InterrupcionAlSuyo`: a late kill hits nobody else; `ElRelojDesaloja`: a clock that lives takes the CPU away, or the operator pauses. The invariant of the proofs is checked too (`DespachoInv`) |
| `conexion` | 3 processes, one with an unreadable path, loaded by the PLP while two threads eliminate them | `MemoriaEntiende`: no message arrives where another kind is expected, nor an end before its start; `RespuestasContadas`: what was asked and not read yet, exactly; `LaCargaTermina`, `SeLibera`: a load ends and a process is freed, unless the memory dies; and the invariant of the proofs (`ConexionInv`) |
| `interfaces` | 1 name connected up to twice, 2 processes, 3 requests, 1 kill, pauses, addresses given out again | `HaceLoPedido`: nobody is unblocked without its operation, until an address an interface holds is given out again; `OperacionFiel`: nor with another one, for one instruction of each of the eight kinds; `EliminadoUnaVez`, `SinAvisosPerdidos`, `ConsolaSegura`; `ElBloqueadoSale`: no queue is left behind, unless the operator pauses; and the invariant of the proofs (`InterfacesInv`) |
| `dialfs_compacta` | 3 files of up to 3 bytes, 5 blocks of 1 byte, every request, also of names that exist, and deletes of files that start at block 1 or before | The invariant of the proofs (`DiscoInv`); order of the compaction; no shared block at any step of it; `SoloPierdeAlBorrar`: the bitmap is the blocks of the files, an empty one's included, but for what deleting and creating again forget; and `ImplementaAlmacen`: a compaction changes no contents |
| `dialfs_elimina` | 3 files of up to 4 bytes, 3 blocks of 2 bytes, the same requests | `ImplementaAlmacen` where a size fills a block, half fills it or leaves it empty |
| `mem_marcos` | 3 frames of 1 byte, 2 processes, 1 interface, kills during its operation, LRU, TLB of 2 | Page tables, bitmap, kernel, access under way and interface agree (`MemoriaInv`, the invariant of the proofs, with `MarcosExclusivos`); the TLB agrees with the page tables (`TlbCoherente`) and keeps the pages used last (`TlbRecientes`) |
| `mem_espacio` | 2 frames of 2 bytes, accesses of up to 3 bytes, FIFO, TLB of 1 | `ImplementaEspacio`, `LeeLoSuyo`: each process has its own bytes; `DireccionVigente`: a translation is still right when it is used, also by an interface after the process left the CPU |

Runs that end in a violation; each is a disagreement between the code and its own comments.

| Run | Comment | What the code does |
|---|---|---|
| `vrr_pop_del_visto` | `planificador_corto_plazo.c:204` "Hace pop al elemento que vimos" | Under VRR an interface may fill READY+ between the look and the pop: the PCP dispatches one process and loses another |
| `finalizar_con_espera` | `recursos.c:7-9` "tampoco quiero que bloquee" | Killing a ready process that holds a resource others wait for locks the console against a mutex of its own |
| `interfaces_aserto` | `consola.c:373` `assert(interfaz != NULL)` | An interface leaves the dictionary before the list of names (`interfaces.c:156`), and takes a reconnection's entry with it: a kill finds a name with no interface |

The models also contain these, which no run isolates. Each is why a property has the form, or
a constant the value, that it has:

- Under VRR the `continue` of the PCP's second look (`planificador_corto_plazo.c:62`) drops a unit of
  `sem_elementos_en_ready` for a process that is still there, so `AvisosReady` is only claimed
  under RR.
- `pid_en_ejecucion` is -1 "cuando no hay ninguno" (`main.c:22`), and also from a WAIT or SIGNAL
  that does not block on (`planificador_corto_plazo.c:124`): a kill does not find the process.
- The clock is cancelled on every PCB received (`planificador_corto_plazo.c:139`), also when the
  execution is given back, where no other is started: a process that made one WAIT or SIGNAL
  keeps the CPU, against the note at 71-72. `ElRelojDesaloja` speaks of a clock that lives.
- An interrupt that reaches the CPU with no process, or another, is dropped (`cpu/src/main.c:250`):
  a kill that raced the end of the execution does nothing.
- A program that runs past its last instruction aborts the memory, and the CPU with it
  (`memoria/src/atender_cpu.c:66`): `FetchPasado`, which a program of `despacho` meets.
- An interface that disconnects eliminates who was blocked on it in its own thread, with none of
  the permissions (`interfaces.c:41-51`, `96`, `412-421`). The pause does not stop it, against the
  note at `main.c:232-234`: its processes go to EXIT, and who waited for their resources to
  READY (`recursos.c:123`), so `PausaCongela` says what is frozen and what is not. Its
  test of a counter (`recursos.c:110`) races the decrement of `asignar_recurso` (24), which comes
  before the push: it pops an empty queue and follows NULL (`IoSacaNull`), wakes the wrong
  number of processes, or an update of the counter is lost (`IoGuarda`). From then on the
  counter means nothing: the PCP and the console may pop NULL too (`PcpSacaNull`, `ConSacaNull`),
  and the assertion of `consola.c:347` may fail (`ConAserto`). `BloqueadosContados` is claimed
  until an interface leaves.
- A pause holds `sem_interrupcion_rr` and `sem_entrada_a_ready` for as long as the operator likes:
  a clock that rang does not interrupt (`planificador_corto_plazo.c:235`) and an interface that
  finished unblocks nobody (`interfaces.c:55`). `ElRelojDesaloja` and `ElBloqueadoSale` say so.
- The end of a process whose path could not be opened makes the memory follow NULL
  (`estructuras.c:18`, from `atender_kernel.c:99`) before it answers: `LiberaNull`. The kernel's PLP
  waits for that answer from then on, hence the escape of `LaCargaTermina` and `SeLibera`.
- An interface that closes before it sends its name aborts the kernel (`interfaces.c:127-130`):
  `RegistraNada`.
- Shrinking the degree (`consola.c:204`) does not take units back from `sem_multiprogramacion`;
  `ConservacionGrado` is stated with the debt for that reason.
- Nobody reads the answer to OPCODE_FIN_PROCESO but the PLP, as if it were that to its start
  (`planificador_largo_plazo.c:43`): from the first end on a process is in READY before the memory
  has it. `FetchNull` is the CPU asking for an instruction too early, or of a process whose path
  could not be opened.
- A process killed while blocked on an interface leaves its unit in `procesos_esperando`: the
  thread finds the queue empty and reads through NULL (`interfaces.c:38`): `IoLeeNull`,
  `TomaNull`.
- The address of a killed process's `t_bloqueado_io` may be given out again: then the thread
  (`interfaces.c:60`) unblocks a process it did nothing for. `Malloc` gives out any address that
  is free; `reuso` becomes true when one is that an interface still holds, and `HaceLoPedido` is
  claimed until then: without `~reuso` TLC finds the process.
- The PCP may push to an interface that has just emptied its queue to leave
  (`planificador_corto_plazo.c:400`): the process is lost. `ElBloqueadoSale` is of the queues whose
  thread still looks at them.
- A kill between the check and the copy of a STDIN (`operaciones_espacio_usuario.c:77`, `97`) gives
  the frame to another process, whose bytes the copy changes: `mem_espacio` has
  `MataEnIo = FALSE`.
- `delete_file` frees as many blocks as its first block's number would take as a size
  (`dialfs.c:179`): blocks of nobody are left marked, or, past block `BLOCK_SIZE`, blocks of other
  files are freed. `BorraHasta` keeps to the files where only the first happens, which
  `SoloPierdeAlBorrar` states; with the 32 blocks of 16 bytes of `FS.config` the second happens
  too.
- A write that starts inside the file and ends outside it changes the block after it
  (`dialfs.c:621`): the runs have `MaxDesborde = 0`, and with 1 `ImplementaAlmacen` is false.

### Bounds

They are constants of the modules or guards, each named.

- `Planificacion`: `MaxProcesos` starts; `MaxGrado` the degrees the operator asks for;
  `MaxExtra` pending reductions; `MaxInstancias` keeps SIGNALs without WAIT from growing a
  resource for ever. Two processes are enough for every race between a look and a pop (one
  seen, one that gets before it), and two waiters behind a holder differ from one only in
  numbers, which `BloqueadosSiempre` proves for every value. The changes of degree have their
  own run because together with the resource and the interface they do not fit.
- `Despacho`: `MaxRelojes`, clocks alive at once: an old one past its check and the one it
  disturbs. `MaxFinalizar`, kills, per pair of programs. With a `QUANTUM` of one tick what is
  left of it is all, nothing or, after two requests in one dispatch, less than nothing;
  `UINT8_MAX` and `UINT32_MAX`
  are small (1 and 7) so that sums overflow and wrap, and a number of a program past 32 bits is
  truncated. Programs are of up to five instructions.
- `Interfaces`: `MaxConexiones` (an interface and its return), `MaxPedidos` (requests, and so
  addresses that malloc has to give), `MaxFinalizar`.
- `DialFS`: `MaxTam`, the size of a file; `MaxDesborde`, how far past the end a process asks
  to write (0 in the runs); `BorraHasta`, the last block a file that is deleted starts at;
  `Recrea`, whether FS_CREATE comes for names that exist; `Operaciones`, the requests that
  arrive. Three files are those a compaction distinguishes: before, being moved, after.
- `Memoria`: `MaxTam`, bytes of a process; `MaxInstrucciones`, instructions executed;
  `MataEnIo`, whether processes are killed while blocked on an interface. Two frames and two
  processes are enough for a frame to change hands and for a process to have pages that are
  not contiguous.

Deadlock is checked in `plan_grado`. The others may really stop: every process ended, the
console that waits for itself (`finalizar_con_espera`), a full disk, a memory that aborted, a
kernel that followed NULL, or a bound.

### Fairness

`Equidad`, in `Planificacion`, gives strong fairness to each thread of the kernel, on its steps
as a whole. The threads are preemptively scheduled and never wait on each other but for
semaphores and mutexes; POSIX semaphores are not first come, first served, so a thread that
waits for a permission others keep taking and returning needs that it is not overtaken for
ever, which is what strong fairness says. It includes that the CPU returns every PCB and that
memory and devices answer. Nothing is assumed of the operator: it may stop typing, or pause for
good, and `ReadyAvanza` says so. `plan_grado` runs under RR, and has neither interfaces nor
resources: with them the console's lock-up and the crash above end the system legitimately.

`Justicia`, in `Despacho`, `Conexion` and `Interfaces`, is weak fairness: a thread that can take a
step for ever takes it, time passes, and an interface that stays connected ends what it was
asked to do; in `Interfaces`, that the console ends a walk it began. Nothing is assumed of the
operator, who may pause for good in both modules that have the pause, of who ends a process or
of who connects. `ElRelojDesaloja` and `ElBloqueadoSale` end in "or the planning is paused", as
`ReadyAvanza` does.

## 4. What is proved

By TLAPS, for every number of processes, resources, interfaces, frames and pages, and every
value of the bounds, from the assumptions named in the modules (`ConstantesOK`, `TlbOK`,
`MemoriaOK`, `ConexionOK`, `InterfacesOK`, `DespachoOK`). These type the constants and keep
names apart; `InterfacesOK` adds that the instructions are written as the parser expects
(`BienEscrita`) and name an interface of the system, `DespachoOK` that programs are sequences
of instructions the decoder knows.

`Planificacion`, by induction in four layers, each using those before it (together, `IInv`):

1. `ControlInv` (`PruebaPlanificacion`, as the two after it): the permissions. Each is free or has one holder, and which
   of them the console holds follows from where it is in a command. Needed by all the rest,
   because a thread that holds a permission is what keeps the console out.
2. `DatosInv`: types, who has a PCB in hand at which point, and
   `BloqueadosContados`. The last is in the invariant, and not just a consequence, because
   `incrementar_recurso` pops without looking, and each step that keeps it needs it: the decrement
   of the PCP counts as one on its way to the queue (`Pidiendo`), a kill as one on its way out
   (`con_cola`). It is claimed `Completas`, while no interface has left, and no step makes that
   true again. Types do not need it: a pop of an empty queue is a step of its own, after which
   the kernel is no more (`PopDeNull`). From the layer: `TypeOK`, `BloqueadosContados` and the action
   property `PausaCongela`, under every algorithm; the last because only an interface that leaves
   moves a process with no permission, and it moves its own to EXIT and waiters to READY.
3. `LugarInv`, under FIFO and RR: READY+ is empty, so nothing can come before
   the PCB the PCP saw, and the console is kept out of `saca` by the permission: the PCP pops
   what it saw (`PopDelVisto`) and every process keeps exactly one place (`UnSoloLugar`). Under
   VRR both are false, as `vrr_pop_del_visto` shows, so the theorem has the algorithm as a
   hypothesis.
4. `CuentasInv` (`PruebaCuentas`), under FIFO and RR: `AvisosReady`, `AvisosNewEIo`,
   `ConservacionGrado` and `SinAsignacionesHuerfanas`. The semaphores are not inductive
   alone: a thread that has taken a unit and finds another process at its second look starts
   over without it, which is right only if the one it saw is not waiting any more.
   `VistosInv` says so: what a thread saw is still the first of the queue, or was killed, and
   who was killed never comes back. Each action moves at most one process from one place to
   another (`Mueve`), and the counts follow it; under VRR the PCP loses one, so these have the
   algorithm as a hypothesis too. The degree counts who is between the pop of NEW and the first
   half of `eliminar_proceso`; resources are held by processes that started and did not end,
   because who goes to EXIT has just released what it had.

`SqueueLemas` says what push, pop and the removal of an element do to the set and to the
length of a queue, and that they keep it free of repetitions.

`Memoria` (`PruebaMemoria`), by `MemoriaInv`, under both replacement algorithms and with kills
at any point: `MarcosExclusivos`, `TlbCoherente` and `DireccionVigente`.

- `MarcosInv`: no frame belongs to two pages and the bitmap marks exactly those in use. It needs
  that the kernel and the memory agree on which processes exist, without which one could be
  created over a live one, or freed twice. The interesting cases are RESIZE, upwards (the
  frames come from those free, so they are in no table) and downwards (a table has no frame
  twice, so what it loses it does not keep).
- `TlbCoherente` is not inductive: that the memory may shrink a table under the TLB is excluded
  by `CpuInv`, where the entries of a RESIZE under way are already gone, and by one process at
  most being in the CPU, so that no other access brings them back.
- `DireccionVigente` needs where an access goes on: `AvanceInv` says that the pieces done end
  there, so that the next block starts at the next page. What an interface was given stays
  right because `IoInv` keeps its process waiting, or killed, and the table of one that waits
  does not change.
- `LeeLoSuyo` and the refinement `ImplementaEspacio` have `~MataEnIo` as a hypothesis: with kills
  during an operation they are false (§3). A write at an address is seen by its process at
  the logical address it named and by nobody else, because no frame is shared; RESIZE keeps
  the bytes of the pages that stay; and the stretches read one after the other are the
  stretch from the first to the last.
- `TlbRecientes`, under LRU, is of `MemoriaHistoria`. `HistoriaInv` adds that each entry is marked
  with the last use of its page: then the victim, the one marked longest ago, is the page used
  longest ago of those in the TLB, and what RESIZE takes out counts as not used.

`DialFS` (`PruebaDialFS`), by `DiscoInv`, for every disk, set of names and size: `SinSolaparse`,
`OrdenDeCompactacion`, the action property `SoloPierdeAlBorrar` and the refinement
`ImplementaAlmacen`. The first two need each other and `CompactacionInv`: the files not moved yet
come after the end of the one that moves because they share no block with it and start
later, and that is why the place it moves to is free; the ones that moved end before
`bloque_actual`; and the file that grows leaves at least the blocks it had, so the last copy
fits. There is no induction over the files pending: the step of one file keeps the relation
between all the others. The refinement is then about bytes: what is copied to the blocks of
one file is read back by it (`CopiarAhi`) and by no other (`CopiarLejos`), where the pointers
keep the order of the blocks (`Punteros`). Two hypotheses are of the requests, and are those of
the runs, because without them the code does not do it (§3): `Borra`, the files that are
deleted start at block `BLOCK_SIZE` or before, in all five theorems; and in the refinement
`MaxDesborde = 0`, writes end inside the file.

`Conexion` (`PruebaConexion`), by `ConexionInv`: `MemoriaEntiende` and `RespuestasContadas`.
Neither is inductive. That a message arrives where it is expected depends on what is on the
connection before it and on who may still send: `MensajesInv` says that each message fits
after the one before, and that the last one waits for its argument exactly while its sender
is between the two sends, which `MutexInv` makes one thread only. That memory knows the
process whose end it reads needs `FinesInv`: the start of it is in front, for every process
that somebody may eliminate yet, and its end is sent once. The requests in the queue are
counted as the positions that hold an operation, so that the count moves with the sequence
(`Operaciones`), with no recursion.

`Interfaces` (`PruebaInterfaces`), by `InterfacesInv`: `ConsolaSegura`, `EliminadoUnaVez`,
`SinAvisosPerdidos`, `OperacionFiel` and the action property `HaceLoPedido`.

- `HilosInv` and `DiccionarioInv` say what each thread has in hand at each point and that an
  entry of the dictionary is of a thread that did not take it out yet. From them the console
  never follows a pointer to a freed `t_interfaz`.
- `ColasInv`: an address is in one queue, once, and what it points to is alive and blocked;
  with `EliminadosInv`, no process is eliminated twice.
- `AvisosInv` counts the unit a thread took and has not spent, and knows that while it attends
  somebody the console already took away, one is left over.
- `PedidosInv`, while `~reuso`, follows an operation from the instruction to what was sent,
  done and answered. It is stated of the process at the address, so it needs that no address
  some interface holds is given out again; one that nobody holds may be, and the proof of
  `Encola` is that it disturbs nothing. The theorem has no hypothesis: the property itself
  says until when it is claimed.
- `OperacionFiel` holds for every well-written instruction and every content of the
  registers: decoding, packing, forwarding and interpreting lose nothing and swap nothing.

`Despacho` (`PruebaDespacho`), by `DespachoInv`, under the three algorithms and for every
program: `CancelarSinSegfault`, `QuantumRestante`, `InterrupcionAlSuyo` and the refinement
`ImplementaPrograma`.

- `VueloInv`: one PCB is out of the queues, and it is with the planner, in the CPU, or on one of
  the two ways of the connection. `LugarInv`: every process has one PCB, in one place. Without
  them a process could advance in two copies.
- `RelojInv`: while the flag says a clock was started it exists and is not cancelled, so
  the planner writes to memory that was not freed.
- `QuantumInv`: what a process has left plus what it used is at most a quantum; while it
  executes the chronometer counts at least what it uses, which is what the planner takes
  away when it comes back.
- `InterrupcionInv`: whoever an interrupt names, on any of its stops (the connection, the list
  of the CPU, a PCB coming back), was named by the operator.
- `PedidosInv`: who asked for its end, and was answered, is gone; so a program does nothing after
  its EXIT.

That `Despacho` implements `Programa`: the values of the specification are read from the PCB of
each process wherever it is, and a request is made when the PCB is given back with it. A step
of the planner, a clock, the operator or the connection moves PCBs and leaves these values
alone (`Mueve`), or takes a process out (`Termina`); a step of the CPU changes those of one
process as its instruction says.

## 5. What is only model-checked

- Liveness (`ReadyAvanza`, `LaPausaTermina`, `ElRelojDesaloja`, `LaCargaTermina`, `SeLibera`,
  `ElBloqueadoSale`): fairness and `ENABLED` are out of the prover's reach.

Every safety property of the runs is proved, with the hypotheses §4 names.

## 6. Abstractions, and what is not modelled

- PCBs are compared by pid in `Planificacion`: in the code by pointer, where a freed PCB's
  address may be given to a new one. `Interfaces` has addresses, of `t_bloqueado_io`.
- `eliminar_proceso` tests and decrements `procesos_extra_multiprogramacion` in one step; in the
  code without a lock.
- `incrementar_recurso` is four steps in an interface that leaves (test, pop and push, load, store)
  and one in the PCP and the console, who keep each other out with `sem_manejo_desalojo_cpu`; what
  those count between the load and the store of the interface is lost, and `CuentaOtro` lets the
  store of the interface be lost while one of them is about to count, somewhat more often than
  the code allows.
- In `Planificacion` an interface that left does not come back: each element of `Interfaces` is a
  connection (`Interfaces`, the module, has the return). Who blocks on it after its last look
  stays in a queue nobody looks at, which still counts as its one place.
- `ConSeTraba`: in the code the waiter is popped before the console stops; nobody sees it.
- A thread that dereferences NULL or freed memory may stop the kernel (`caido`) or go on; both
  are in the model where the memory was freed, and NULL always stops it. The log lines that
  read what was just given away (`planificador_corto_plazo.c:403`) are left out.
- `Despacho`: two registers of data, one of each width, and PC; a tick of the clock is the unit
  of time, and the chronometer stops at `QUANTUM`; a number past 32 bits
  is what fits of it (`uint32`), which for decimal texts past `INT_MAX` is what `atoi` of glibc does; PROCESO_ESTADO and the handshake are out.
- `Interfaces` and `Conexion`: a connection delivers messages whole and in order (TCP); an
  interface that stops loses what it was sent, not what it answered. Byte layout, handshakes
  and sizes are out: a message is its type and value.
- Decoding is modelled for the eight I/O instructions, whose parameters are told apart by
  position only; the others fill a register or a number. COPY_STRING is its two halves in
  `Memoria`.
- `DialFS`: FS_READ changes nothing, what it returns is `Contenido`; asking for a file that does
  not exist stops the interface, so it is no step; from the moment a request falls outside the
  disk (`fuera`) nothing more is said; stopping the interface within a request is planned.
- `Memoria`: a look-up of the process and its frames is one step (the code follows a pointer
  another thread may be freeing); accesses of 0 bytes, and the abort of the memory on a request
  of the CPU, which `DireccionVigente` excludes, are left out; the bytes written in one access
  are all equal. DialFS reads and writes memory as STDOUT and STDIN do.
- Not modelled: scripts (sequences of commands), PROCESO_ESTADO, logs, configuration, and the
  start-up of each program.

## 7. Plan

Done: `Planificacion` first, as the system's centre, then what has the most fragile data
(`DialFS`), then memory; then what `Planificacion` saw through answers only: the dispatch, the
connection with the memory, the interfaces. Next, in order:

1. `DialFS` with stops between writes; `Planificacion` with the two steps of
   `procesos_extra_multiprogramacion`; scripts.
2. What holds under VRR of the properties proved under FIFO and RR: the PCP loses no process
   while READY+ stays empty.
