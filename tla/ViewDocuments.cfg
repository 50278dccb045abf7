SPECIFICATION ExportSpec
CONSTANTS
  Writers = {w1}
  Exporters = {x1}
  Formats = {"yaml", "html", "graph", "search"}
  MaxEvents = 2
  MaxMarks = 1
CHECK_DEADLOCK FALSE
INVARIANT NothingAboutOmitted
