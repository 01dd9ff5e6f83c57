---------------------------- MODULE MCRunnerCli ----------------------------
EXTENDS RunnerCli

\* Path components, as character sequences.
CompA == << "a" >>
CompT == << "t" >>
CompB == << "b" >>

\* /a is the project; /a/t is inside it and /t outside.
MCRoots == { << CompA >> }
MCFilesApart == { << CompA, CompT >>, << CompT >> }

\* Working directories: a top-level directory and one below it, so that a
\* package.json may be at, above or nowhere above the working directory.
MCDirs == { << CompA >>, << CompA, CompB >> }

\* runTests' workers, as twice the value: -1, 0, 1, 2 and 2.5.
MCMcpWorkers == {-2, 0, 2, 4, 5, NaN, Undefined}

\* Pages of llms-full.txt: up to four pieces, each a heading, a "### Test
\* Cases"-like subheading (which holds "## Test Cases" one character in),
\* a space or other text, in any order; so headings may be missing,
\* repeated or out of order.
MCPieces == { BuildingHeading, TestCasesHeading, ExampleHeading,
              << "#", "#", "#", "t" >>, << " " >>, << "x" >> }
MCPages == { FlattenSeq(p) : p \in SeqOf(MCPieces, 4) }
=============================================================================
